---- MODULE Spec2Model ----
(***************************************************************************)
(* A model of the folder-upload plugin (NFPlugin): path validation, the    *)
(* per-batch rename map, the directory scan with its subdirectory workers, *)
(* the batched upload, URL back-filling and the Markdown rendering.        *)
(*                                                                         *)
(* Strings are sequences of one-character strings, so that startsWith,     *)
(* includes, extname and normalize are computed character by character.    *)
(* An optional value (T | null) is a sequence of at most one element.      *)
(***************************************************************************)
EXTENDS Integers, Sequences, FiniteSets, TLC

VARIABLES
    normalizedWorkspaceDir, \* NFPlugin.normalizedWorkspaceDir (string | null)
    vPc,                    \* position of the validation scenario
    vPath,                  \* the argument of validatePath
    vResult,                \* the value validatePath returned (optional)
    rnPc,                   \* position of the rename-map scenario
    rnPaths,                \* the argument of generateRenameMap (one batch)
    rnMap,                  \* the Map generateRenameMap returned
    rdPc,                   \* position of the rendering scenario
    rdTree,                 \* the tree given to generateTreeMarkdown
    rdOut,                  \* the Markdown text it returned
    fx,                     \* the environment of a run: directory listings,
                            \* unreadable entries, the collaborators' answers
    failedFiles,            \* NFPlugin.failedFiles
    uploadAbortController,  \* NFPlugin.uploadAbortController (optional)
    abortedSignals,         \* the AbortControllers whose signal is aborted
    ops,                    \* the local state of each uploadAndInsert call
    obs                     \* what each call did, as seen from outside

validateVars == <<normalizedWorkspaceDir, vPc, vPath, vResult>>
renameVars == <<rnPc, rnPaths, rnMap>>
renderVars == <<rdPc, rdTree, rdOut>>
opVars == <<fx, failedFiles, uploadAbortController, abortedSignals, ops, obs>>
vars == <<validateVars, renameVars, renderVars, opVars>>

None == <<>>
Some(x) == <<x>>
IsSome(o) == o # <<>>
Get(o) == o[1]

----------------------------------------------------------------------------
(* Strings                                                                 *)

SEP == "/"

\* String.prototype.startsWith
StartsWith(s, prefix) ==
    /\ Len(prefix) <= Len(s)
    /\ SubSeq(s, 1, Len(prefix)) = prefix

\* String.prototype.includes
Includes(s, sub) ==
    \E i \in 1..(Len(s) - Len(sub) + 1) : SubSeq(s, i, i + Len(sub) - 1) = sub

\* String.prototype.trim() === '' : only white space (or nothing) in s
TrimIsEmpty(s) == \A i \in 1..Len(s) : s[i] = " "

\* The segments of s between separators, empty segments included
\* ("/a//b" gives "", "a", "", "b").
RECURSIVE SplitFrom(_, _, _)
SplitFrom(s, i, cur) ==
    IF i > Len(s) THEN <<cur>>
    ELSE IF s[i] = SEP THEN <<cur>> \o SplitFrom(s, i + 1, <<>>)
    ELSE SplitFrom(s, i + 1, Append(cur, s[i]))

Split(s) == SplitFrom(s, 1, <<>>)

RECURSIVE JoinSep(_)
JoinSep(segs) ==
    IF Len(segs) = 0 THEN <<>>
    ELSE IF Len(segs) = 1 THEN segs[1]
    ELSE segs[1] \o <<SEP>> \o JoinSep(Tail(segs))

DOT == <<".">>
DOTDOT == <<".", ".">>

\* node:path (posix) normalizeString: "." and empty segments are dropped, ".."
\* removes the segment before it, or is kept when nothing is left to remove
\* and the path is relative.
RECURSIVE NormalizeSegs(_, _, _, _)
NormalizeSegs(segs, i, res, allowAboveRoot) ==
    IF i > Len(segs) THEN res
    ELSE LET seg == segs[i] IN
        IF seg = <<>> \/ seg = DOT
        THEN NormalizeSegs(segs, i + 1, res, allowAboveRoot)
        ELSE IF seg = DOTDOT
        THEN IF Len(res) > 0 /\ res[Len(res)] # DOTDOT
             THEN NormalizeSegs(segs, i + 1, SubSeq(res, 1, Len(res) - 1), allowAboveRoot)
             ELSE IF allowAboveRoot
             THEN NormalizeSegs(segs, i + 1, Append(res, DOTDOT), allowAboveRoot)
             ELSE NormalizeSegs(segs, i + 1, res, allowAboveRoot)
        ELSE NormalizeSegs(segs, i + 1, Append(res, seg), allowAboveRoot)

\* node:path (posix) normalize, as called by the plugin: a trailing separator
\* of the argument is kept in the result.
Normalize(p) ==
    IF Len(p) = 0 THEN DOT
    ELSE LET isAbsolute == p[1] = SEP
             trailingSeparator == p[Len(p)] = SEP
             body == JoinSep(NormalizeSegs(Split(p), 1, <<>>, ~isAbsolute))
         IN IF Len(body) = 0
            THEN IF isAbsolute THEN <<SEP>>
                 ELSE IF trailingSeparator THEN <<".", SEP>> ELSE DOT
            ELSE (IF isAbsolute THEN <<SEP>> ELSE <<>>) \o body
                 \o (IF trailingSeparator THEN <<SEP>> ELSE <<>>)

----------------------------------------------------------------------------
(* PathValidator                                                           *)

\* A wrong isInSiyuanWorkspace: a missing workspace directory is taken as
\* the empty string.
isInSiyuanWorkspace_NoGuard(ws, filePath) ==
    StartsWith(Normalize(filePath),
               (IF IsSome(ws) THEN Get(ws) ELSE <<>>) \o <<SEP>>)

\* isInSiyuanWorkspace(filePath)
isInSiyuanWorkspace(ws, filePath) ==
    IF ~IsSome(ws) THEN FALSE
    ELSE StartsWith(Normalize(filePath), Get(ws) \o <<SEP>>)

\* isAncestorOfSiyuanWorkspace(filePath)
isAncestorOfSiyuanWorkspace(ws, filePath) ==
    IF ~IsSome(ws) THEN FALSE
    ELSE LET normalizedPath == Normalize(filePath) IN
         \/ StartsWith(Get(ws), normalizedPath \o <<SEP>>)
         \/ normalizedPath = Get(ws)

\* A wrong hasPathTraversal: looks for ".." only after normalising the path,
\* which resolves "a/../b" away.
hasPathTraversal_Normalized(filePath) ==
    \E i \in 1..Len(Split(Normalize(filePath))) :
        Split(Normalize(filePath))[i] = DOTDOT

\* hasPathTraversal(filePath)
hasPathTraversal(filePath) ==
    Includes(filePath, DOTDOT)

ValidationResult(valid, error) == [valid |-> valid, error |-> error]

\* validatePath(filePath); the error is the i18n key of the message
validatePath(ws, filePath) ==
    IF hasPathTraversal(filePath)
    THEN ValidationResult(FALSE, "pathTraversal")
    ELSE IF Len(filePath) = 0 \/ TrimIsEmpty(filePath)
    THEN ValidationResult(FALSE, "pathEmpty")
    ELSE IF isAncestorOfSiyuanWorkspace(ws, filePath)
    THEN ValidationResult(FALSE, "workspaceAncestor")
    ELSE IF isInSiyuanWorkspace(ws, filePath)
    THEN ValidationResult(FALSE, "workspaceFile")
    ELSE ValidationResult(TRUE, "none")

----------------------------------------------------------------------------
(* Validation scenario: the plugin is loaded with or without a workspace   *)
(* directory, then validatePath is called on one path.                     *)

MaxPathLen == 6
PathAlphabet == {SEP, ".", "a", "w", " "}
PathInputs == UNION {[1..n -> PathAlphabet] : n \in 0..MaxPathLen}

\* window.siyuan.config.system.workspaceDir, when the host provides one
WorkspaceDirConfig == <<SEP, "a", SEP, "w">>

\* the variables of a scenario that is not running
ValidateIdle ==
    /\ normalizedWorkspaceDir = None
    /\ vPc = "idle"
    /\ vPath = <<>>
    /\ vResult = None

RenameIdle ==
    /\ rnPc = "idle"
    /\ rnPaths = <<>>
    /\ rnMap = <<>>

RenderIdle ==
    /\ rdPc = "idle"
    /\ rdTree = <<>>
    /\ rdOut = <<>>

OpIdle ==
    /\ fx = <<>>
    /\ failedFiles = <<>>
    /\ uploadAbortController = None
    /\ abortedSignals = {}
    /\ ops = <<>>
    /\ obs = <<>>

InitValidate ==
    /\ normalizedWorkspaceDir = None
    /\ vPc = "constructed"
    /\ vPath = <<>>
    /\ vResult = None
    /\ RenameIdle
    /\ RenderIdle
    /\ OpIdle

\* onload -> initSiyuanWorkspaceDir()
initSiyuanWorkspaceDir ==
    /\ vPc = "constructed"
    /\ \E provided \in BOOLEAN :
        normalizedWorkspaceDir' =
            IF provided THEN Some(Normalize(WorkspaceDirConfig)) ELSE None
    /\ vPc' = "loaded"
    /\ UNCHANGED <<vPath, vResult, renameVars, renderVars, opVars>>

\* a call of validatePath(filePath)
ValidatePathCall ==
    /\ vPc = "loaded"
    /\ \E filePath \in PathInputs :
        /\ vPath' = filePath
        /\ vResult' = Some(validatePath(normalizedWorkspaceDir, filePath))
    /\ vPc' = "validated"
    /\ UNCHANGED <<normalizedWorkspaceDir, renameVars, renderVars, opVars>>

NextValidate == initSiyuanWorkspaceDir \/ ValidatePathCall

SpecValidate == InitValidate /\ [][NextValidate]_vars

\* The path components of s: its segments other than "" and "."
PathComponents(s) ==
    SelectSeq(Split(s), LAMBDA seg : seg # <<>> /\ seg # DOT)

IsPrefixSeq(a, b) == Len(a) <= Len(b) /\ SubSeq(b, 1, Len(a)) = a

HasTraversalToken(s) == \E i \in 1..Len(Split(s)) : Split(s)[i] = DOTDOT

Validated == vPc = "validated" /\ IsSome(vResult)

\* C4: every path with a ".." path component is rejected with the traversal
\* reason and no other, whatever else holds of the path.
C4_TraversalAlwaysRejected ==
    (Validated /\ HasTraversalToken(vPath))
        => Get(vResult) = ValidationResult(FALSE, "pathTraversal")

\* C4 witness: a path with a ".." component that also names an ancestor of the
\* protected root ("/../a") was validated and got the traversal reason.
C4_Witness ==
    /\ Validated
    /\ HasTraversalToken(vPath)
    /\ IsSome(normalizedWorkspaceDir)
    /\ isAncestorOfSiyuanWorkspace(normalizedWorkspaceDir, vPath)
    /\ Get(vResult).error = "pathTraversal"

\* p names the protected root or one of its ancestors (absolute paths only)
NamesAncestorOrRoot(p) ==
    /\ Len(p) > 0 /\ p[1] = SEP
    /\ IsPrefixSeq(PathComponents(p), PathComponents(WorkspaceDirConfig))

\* p names something strictly below the protected root
NamesStrictDescendant(p) ==
    /\ Len(p) > 0 /\ p[1] = SEP
    /\ IsPrefixSeq(PathComponents(WorkspaceDirConfig), PathComponents(p))
    /\ PathComponents(p) # PathComponents(WorkspaceDirConfig)

\* C5: with a protected root configured, a path equal to the root or one of
\* its ancestors at any level (the filesystem root and trailing-separator
\* spellings included) is rejected with the ancestor reason, and a path
\* strictly below the root with the descendant reason.  Paths that are
\* rejected earlier (traversal token, blank) are left out.
C5_AncestorAndDescendantReasons ==
    (/\ Validated
     /\ IsSome(normalizedWorkspaceDir)
     /\ ~Includes(vPath, DOTDOT)
     /\ ~TrimIsEmpty(vPath))
        => /\ NamesAncestorOrRoot(vPath)
                => Get(vResult) = ValidationResult(FALSE, "workspaceAncestor")
           /\ NamesStrictDescendant(vPath)
                => Get(vResult) = ValidationResult(FALSE, "workspaceFile")

\* C15: when no workspace directory was provided, validatePath rejects no
\* path for being an ancestor of, equal to or below a protected root, and the
\* traversal and blank rules give the verdict they give with a root.
C15_NoRootNothingProtected ==
    (Validated /\ ~IsSome(normalizedWorkspaceDir)) =>
        LET withRoot == validatePath(Some(Normalize(WorkspaceDirConfig)), vPath)
            early == {"pathTraversal", "pathEmpty"}
        IN /\ Get(vResult).error \notin {"workspaceAncestor", "workspaceFile"}
           /\ withRoot.error \in early => Get(vResult) = withRoot
           /\ withRoot.error \notin early => Get(vResult) = ValidationResult(TRUE, "none")
           /\ HasTraversalToken(vPath) => Get(vResult).error = "pathTraversal"
           /\ (~Includes(vPath, DOTDOT) /\ TrimIsEmpty(vPath))
                  => Get(vResult).error = "pathEmpty"

\* C15 witness: without a workspace directory, the path of what would be the
\* protected root was validated and accepted.
C15_Witness ==
    /\ Validated
    /\ ~IsSome(normalizedWorkspaceDir)
    /\ vPath = WorkspaceDirConfig
    /\ Get(vResult).valid

\* the verdict of the four rules in their order: traversal token, blank,
\* ancestor of or equal to the protected root, below the protected root
RuleVerdict(ws, p) ==
    IF HasTraversalToken(p) THEN ValidationResult(FALSE, "pathTraversal")
    ELSE IF TrimIsEmpty(p) THEN ValidationResult(FALSE, "pathEmpty")
    ELSE IF IsSome(ws) /\ NamesAncestorOrRoot(p)
    THEN ValidationResult(FALSE, "workspaceAncestor")
    ELSE IF IsSome(ws) /\ NamesStrictDescendant(p)
    THEN ValidationResult(FALSE, "workspaceFile")
    ELSE ValidationResult(TRUE, "none")

\* C19: validatePath accepts a path exactly when it has no parent-directory
\* component, is not blank, names neither the protected root nor an ancestor
\* of it nor something below it; a rejected path gets the reason of the first
\* rule it violates, in the order traversal, blank, ancestor, descendant.
C19_ValidExactlyWhenNoRuleViolated ==
    Validated => Get(vResult) = RuleVerdict(normalizedWorkspaceDir, vPath)

----------------------------------------------------------------------------
(* NameDisambiguator                                                       *)
(*                                                                         *)
(* A file path is the sequence of its components, each a string; a JS Map  *)
(* is a function on the set of its keys.                                   *)

EmptyMap == [k \in {} |-> k]
MapHas(m, k) == k \in DOMAIN m
MapSet(m, k, v) == [x \in (DOMAIN m) \cup {k} |-> IF x = k THEN v ELSE m[x]]

\* getFileName(filePath) = path.basename(filePath): the last component
getFileName(filePath) ==
    IF Len(filePath) = 0 THEN <<>> ELSE filePath[Len(filePath)]

\* the index of the last "." of name, 0 when it has none
RECURSIVE LastDot(_, _)
LastDot(name, i) ==
    IF i = 0 THEN 0
    ELSE IF name[i] = "." THEN i
    ELSE LastDot(name, i - 1)

\* path.extname(name): from the last "." on; empty when there is no ".",
\* when the only "." is the first character, and for ".."
ExtName(name) ==
    LET d == LastDot(name, Len(name)) IN
    IF d <= 1 \/ name = DOTDOT THEN <<>>
    ELSE SubSeq(name, d, Len(name))

\* path.basename(name, ext): name without the suffix ext
BaseName(name, ext) ==
    IF Len(ext) > 0 /\ Len(ext) <= Len(name) /\ ext # name
       /\ SubSeq(name, Len(name) - Len(ext) + 1, Len(name)) = ext
    THEN SubSeq(name, 1, Len(name) - Len(ext))
    ELSE name

DigitChars == <<"0", "1", "2", "3", "4", "5", "6", "7", "8", "9">>

\* String(n) for n >= 0
RECURSIVE NumToString(_)
NumToString(n) ==
    IF n < 10 THEN <<DigitChars[n + 1]>>
    ELSE NumToString(n \div 10) \o <<DigitChars[(n % 10) + 1]>>

\* A wrong UniqueName: the counter is left out of the new name.
UniqueName_NoCount(originalName, count) ==
    LET ext == ExtName(originalName)
        baseName == BaseName(originalName, ext)
    IN baseName \o <<"_">> \o ext

\* `${baseName}_${count}${ext}`
UniqueName(originalName, count) ==
    LET ext == ExtName(originalName)
        baseName == BaseName(originalName, ext)
    IN baseName \o <<"_">> \o NumToString(count) \o ext

\* generateRenameMap, from the i-th path on
RECURSIVE RenameLoop(_, _, _, _)
RenameLoop(filePaths, i, nameCountMap, renameMap) ==
    IF i > Len(filePaths) THEN renameMap
    ELSE LET filePath == filePaths[i]
             originalName == getFileName(filePath)
             count == IF MapHas(nameCountMap, originalName)
                      THEN nameCountMap[originalName] ELSE 0
             counted == MapSet(nameCountMap, originalName, count + 1)
         IN IF count > 0
            THEN RenameLoop(filePaths, i + 1, counted,
                            MapSet(renameMap, filePath, UniqueName(originalName, count)))
            ELSE RenameLoop(filePaths, i + 1, counted, renameMap)

\* generateRenameMap(filePaths)
generateRenameMap(filePaths) == RenameLoop(filePaths, 1, EmptyMap, EmptyMap)

\* renameMap.get(filePath) || getFileName(filePath): the name a file is
\* uploaded under
UploadName(renameMap, filePath) ==
    IF MapHas(renameMap, filePath) /\ Len(renameMap[filePath]) > 0
    THEN renameMap[filePath]
    ELSE getFileName(filePath)

----------------------------------------------------------------------------
(* Rename scenario: generateRenameMap is called on one batch of distinct    *)
(* file paths taken from a few directories.                                *)

MaxBatchLen == 3
NumRenameDirs == 3

RenameDirSeq == <<<<"p">>, <<"q">>, <<"r">>, <<"s">>, <<"u">>>>
RenameDirs == {RenameDirSeq[k] : k \in 1..NumRenameDirs}
RenameFileNames == {<<"a", ".", "t">>, <<"a", "_", "1", ".", "t">>,
                    <<"a">>, <<"a", "_", "1">>, <<"a", ".", "b", ".", "t">>}
RenamePaths == {<<d, n>> : d \in RenameDirs, n \in RenameFileNames}

IsInjective(seq) ==
    \A i, j \in 1..Len(seq) : seq[i] = seq[j] => i = j

RenameInputs ==
    {b \in UNION {[1..n -> RenamePaths] : n \in 1..MaxBatchLen} : IsInjective(b)}

InitRename ==
    /\ rnPc = "ready"
    /\ rnPaths = <<>>
    /\ rnMap = EmptyMap
    /\ ValidateIdle
    /\ RenderIdle
    /\ OpIdle

\* a call of generateRenameMap(batchPaths)
GenerateRenameMapCall ==
    /\ rnPc = "ready"
    /\ \E batchPaths \in RenameInputs :
        /\ rnPaths' = batchPaths
        /\ rnMap' = generateRenameMap(batchPaths)
    /\ rnPc' = "done"
    /\ UNCHANGED <<validateVars, renderVars, opVars>>

NextRename == GenerateRenameMapCall

SpecRename == InitRename /\ [][NextRename]_vars

\* C3: within one batch no two distinct file paths are uploaded under the
\* same name, also when a generated name equals another file's own name.
C3_UploadNamesCollisionFree ==
    rnPc = "done" =>
        \A i, j \in 1..Len(rnPaths) :
            i # j => UploadName(rnMap, rnPaths[i]) # UploadName(rnMap, rnPaths[j])

\* how many of the first k - 1 paths of a batch have the basename of the k-th
EarlierSameName(paths, k) ==
    Cardinality({j \in 1..(k - 1) : getFileName(paths[j]) = getFileName(paths[k])})

\* name with suffix put before its last extension boundary: before the last
\* "." that is not the first character, at the end when there is none
WithSuffix(name, suffix) ==
    LET dots == {i \in 2..Len(name) : name[i] = "."}
        cut == IF dots = {} THEN Len(name) + 1
               ELSE CHOOSE i \in dots : \A j \in dots : j <= i
    IN SubSeq(name, 1, cut - 1) \o suffix \o SubSeq(name, cut, Len(name))

\* C12: in the ordered paths of a batch, the first occurrence of a basename is
\* absent from the rename map and uploaded under its own name; its N-th later
\* occurrence (N >= 1) is uploaded under {base}_{N}{ext}, base and ext being
\* the name split at its last extension boundary.
C12_NthOccurrenceGetsSuffixN ==
    rnPc = "done" =>
        \A k \in 1..Len(rnPaths) :
            LET n == EarlierSameName(rnPaths, k)
                name == getFileName(rnPaths[k])
            IN IF n = 0
               THEN ~MapHas(rnMap, rnPaths[k]) /\ UploadName(rnMap, rnPaths[k]) = name
               ELSE /\ MapHas(rnMap, rnPaths[k])
                    /\ UploadName(rnMap, rnPaths[k]) =
                           WithSuffix(name, <<"_">> \o NumToString(n))

\* C12 witness: a batch in which one basename with two dots occurs three
\* times, so that suffixes _1 and _2 were given.
C12_Witness ==
    /\ rnPc = "done"
    /\ Len(rnPaths) = 3
    /\ EarlierSameName(rnPaths, 3) = 2
    /\ getFileName(rnPaths[3]) = <<"a", ".", "b", ".", "t">>
    /\ rnMap[rnPaths[3]] = <<"a", ".", "b", "_", "2", ".", "t">>

----------------------------------------------------------------------------
(* Tree nodes and the TreeRenderer                                         *)
(*                                                                         *)
(* A Markdown string is the sequence of its lines (what split("\n") gives, *)
(* so the empty string is one empty line).  A line is its number of        *)
(* leading spaces, whether "- " follows them, and what comes after.        *)

FileNode(name, filePath) ==
    [name |-> name, type |-> "file", filePath |-> Some(filePath), url |-> None,
     children |-> <<>>, linkTarget |-> None]

DirectoryNode(name, children) ==
    [name |-> name, type |-> "directory", filePath |-> None, url |-> None,
     children |-> children, linkTarget |-> None]

EmptyLine == [spaces |-> 0, bullet |-> FALSE, kind |-> "empty", name |-> <<>>, ref |-> None]
EmptyString == <<EmptyLine>>

\* prefix + body, prefix = "  ".repeat(indent + 1) + "- "
BulletLine(spaces, kind, name, ref) ==
    [spaces |-> spaces, bullet |-> TRUE, kind |-> kind, name |-> name, ref |-> ref]

\* Array.prototype.join("\n") of strings
RECURSIVE JoinLines(_)
JoinLines(strings) ==
    IF Len(strings) = 0 THEN EmptyString
    ELSE IF Len(strings) = 1 THEN strings[1]
    ELSE strings[1] \o JoinLines(Tail(strings))

\* A wrong HasChildBlock: the child block is rendered for every directory.
HasChildBlock_Always(node) == TRUE

\* node.children?.length : whether renderNode renders a child block
HasChildBlock(node) == Len(node.children) > 0

\* A wrong HasUrl: a file is never rendered as a link.
HasUrl_Never(node) == FALSE

\* node.url ? : whether renderNode renders a file as a link
HasUrl(node) == IsSome(node.url) /\ Len(Get(node.url)) > 0

RECURSIVE generateTreeMarkdown(_, _, _)
RECURSIVE renderNode(_, _, _)
RECURSIVE RenderNodes(_, _, _, _)

\* renderNode(node, indent, lines): the lines array after the call
renderNode(node, indent, lines) ==
    LET spaces == 2 * (indent + 1) IN
    IF node.type = "directory"
    THEN LET header == Append(lines, <<BulletLine(spaces, "directory", node.name, None)>>)
         IN IF HasChildBlock(node)
            THEN Append(header, generateTreeMarkdown(node.children, <<>>, indent + 1))
            ELSE header
    ELSE IF node.type = "symlink"
    THEN Append(lines, <<BulletLine(spaces, "symlink", node.name, node.linkTarget)>>)
    ELSE IF HasUrl(node)
    THEN Append(lines, <<BulletLine(spaces, "link", node.name, node.url)>>)
    ELSE Append(lines, <<BulletLine(spaces, "code", node.name, None)>>)

\* for (const node of tree) this.renderNode(node, indent, lines)
RenderNodes(tree, i, indent, lines) ==
    IF i > Len(tree) THEN lines
    ELSE RenderNodes(tree, i + 1, indent, renderNode(tree[i], indent, lines))

\* generateTreeMarkdown(tree, rootName, indent)
generateTreeMarkdown(tree, rootName, indent) ==
    LET lines0 == IF indent = 0
                  THEN <<<<BulletLine(0, "directory", rootName, None)>>>>
                  ELSE <<>>
    IN JoinLines(RenderNodes(tree, 1, indent, lines0))

----------------------------------------------------------------------------
(* Rendering scenario: generateTreeMarkdown is called on a back-filled     *)
(* tree of at most MaxTreeNodes nodes.                                     *)

MaxTreeNodes == 4

RenderRootName == <<"R">>
UrlOf(name) == <<"/", "a", "s", "s", "e", "t", "s", "/">> \o name

\* a file node after fillTreeUrls: linked (url set) or not (filePath cleared)
LinkedFile(name, dirPath) ==
    [FileNode(name, Append(dirPath, name)) EXCEPT !.url = Some(UrlOf(name))]
UnlinkedFile(name, dirPath) ==
    [FileNode(name, Append(dirPath, name)) EXCEPT !.filePath = None]

RenderDirNames == {<<"d">>, <<"e">>}

SiblingNamesDistinct(tree) ==
    \A i, j \in 1..Len(tree) : tree[i].name = tree[j].name => i = j

\* the trees of exactly n nodes below the directory dirPath
RECURSIVE TreesOfSize(_, _)
TreesOfSize(n, dirPath) ==
    IF n = 0 THEN {<<>>}
    ELSE LET firsts(k) ==
                 IF k = 1
                 THEN {LinkedFile(<<"x">>, dirPath), UnlinkedFile(<<"y">>, dirPath)}
                      \cup {DirectoryNode(d, <<>>) : d \in RenderDirNames}
                 ELSE UNION {{DirectoryNode(d, c) : c \in TreesOfSize(k - 1, Append(dirPath, d))}
                             : d \in RenderDirNames}
         IN {t \in UNION {{<<f>> \o rest : f \in firsts(k), rest \in TreesOfSize(n - k, dirPath)}
                          : k \in 1..n} : SiblingNamesDistinct(t)}

RenderInputs == UNION {TreesOfSize(n, <<RenderRootName>>) : n \in 0..MaxTreeNodes}

InitRender ==
    /\ rdPc = "ready"
    /\ rdTree = <<>>
    /\ rdOut = <<>>
    /\ ValidateIdle
    /\ RenameIdle
    /\ OpIdle

\* insertMarkdown: a call of generateTreeMarkdown(tree, dirName)
GenerateTreeMarkdownCall ==
    /\ rdPc = "ready"
    /\ \E tree \in RenderInputs :
        /\ rdTree' = tree
        /\ rdOut' = generateTreeMarkdown(tree, RenderRootName, 0)
    /\ rdPc' = "done"
    /\ UNCHANGED <<validateVars, renameVars, opVars>>

NextRender == GenerateTreeMarkdownCall

SpecRender == InitRender /\ [][NextRender]_vars

\* the nodes of a tree in pre-order, each with its nesting level below the root
RECURSIVE PreOrder(_, _)
RECURSIVE PreOrderRange(_, _, _, _)
\* the same for the nodes lo..hi of tree
PreOrderRange(tree, level, lo, hi) ==
    IF lo > hi THEN <<>>
    ELSE IF lo = hi
    THEN << [level |-> level, node |-> tree[lo]] >>
         \o PreOrder(tree[lo].children, level + 1)
    ELSE LET mid == (lo + hi) \div 2
         IN PreOrderRange(tree, level, lo, mid) \o PreOrderRange(tree, level, mid + 1, hi)

PreOrder(tree, level) == PreOrderRange(tree, level, 1, Len(tree))

\* C10: the text is the root line (once, not indented) followed by exactly one
\* bulleted line per node in pre-order, a node at level k below the root
\* indented by 2*k spaces; a directory without children adds no other line.
C10_OneLinePerNodeInPreOrder ==
    rdPc = "done" =>
        LET pre == PreOrder(rdTree, 1) IN
        /\ Len(rdOut) = 1 + Len(pre)
        /\ rdOut[1] = BulletLine(0, "directory", RenderRootName, None)
        /\ \A i \in 1..Len(pre) :
            LET line == rdOut[i + 1]
                n == pre[i].node
            IN /\ line.bullet
               /\ line.spaces = 2 * pre[i].level
               /\ line.name = n.name
               /\ (n.type = "directory") = (line.kind = "directory")

\* C10 witness: a rendered tree with a nested directory that has children and
\* a directory that has none.
C10_Witness ==
    /\ rdPc = "done"
    /\ \E i, j \in 1..Len(rdTree) :
        /\ rdTree[i].type = "directory" /\ Len(rdTree[i].children) = 0
        /\ rdTree[j].type = "directory" /\ Len(rdTree[j].children) > 0
    /\ Len(rdOut) = 1 + Len(PreOrder(rdTree, 1))

\* C11: every node of the tree has its line in the text, and the line of a
\* file is the link [name](url) exactly when the node has a URL and the name
\* in a code span, without a link, otherwise.
C11_NoNodeOmittedFileLinkIffUrl ==
    rdPc = "done" =>
        LET pre == PreOrder(rdTree, 1) IN
        /\ Len(rdOut) = 1 + Len(pre)
        /\ \A i \in 1..Len(pre) :
            LET line == rdOut[i + 1]
                n == pre[i].node
            IN /\ line.name = n.name
               /\ n.type = "file" =>
                    /\ IsSome(n.url) => (line.kind = "link" /\ line.ref = n.url)
                    /\ ~IsSome(n.url) => (line.kind = "code" /\ line.ref = None)

\* C11 witness: a rendered tree with a file that has a URL and a file that
\* has none, both with their line.
C11_Witness ==
    /\ rdPc = "done"
    /\ \E i, j \in 1..Len(rdTree) :
        /\ rdTree[i].type = "file" /\ IsSome(rdTree[i].url)
        /\ rdTree[j].type = "file" /\ ~IsSome(rdTree[j].url)
        /\ rdOut[i + 1].kind = "link"
        /\ rdOut[j + 1].kind = "code"

----------------------------------------------------------------------------
(* The upload-and-insert operation: constants and state                    *)

BATCH_SIZE == 10
MAX_DEPTH == 9
MAX_FILE_SIZE == 100 * 1024 * 1024
MAX_FILES == 1000
MAX_CONCURRENT_SUBDIRS == 3
MAX_CONCURRENT_READS == 5

HIDDEN_DIRS ==
    {<<"n", "o", "d", "e", "_", "m", "o", "d", "u", "l", "e", "s">>,
     <<".", "g", "i", "t">>,
     <<".", "v", "s", "c", "o", "d", "e">>,
     <<".", "i", "d", "e", "a">>}

\* A wrong defaultFilter: only names starting with "." are left out.
defaultFilter_DotOnly(name) == ~(Len(name) > 0 /\ name[1] = ".")

\* defaultFilter(name)
defaultFilter(name) ==
    IF Len(name) > 0 /\ name[1] \in {".", "~"} THEN FALSE
    ELSE name \notin HIDDEN_DIRS

Min(a, b) == IF a < b THEN a ELSE b

\* the local variables of one uploadAndInsert call before it starts
IdleOp ==
    [pc |-> "idle",             \* idle, scan, read, fetch, insert, done
     frames |-> EmptyMap,       \* the buildDirectoryTree calls, by directory
     fileCount |-> 0,           \* fileCountRef.count
     tree |-> <<>>,
     filePaths |-> <<>>,
     batchIndex |-> 0,          \* i of uploadFilesInBatches
     renameMap |-> EmptyMap,
     allResults |-> EmptyMap,
     chunkStart |-> 0,          \* i of createFormDataFromPaths
     reading |-> {},            \* the readFile calls in flight
     readOk |-> {},             \* the files of the batch read successfully
     formData |-> <<>>,         \* the names of the file[] parts, in order
     markdown |-> None,
     insertLogged |-> FALSE,    \* insertToEditor logged a failure
     status |-> None]           \* the final message shown

\* what is recorded about one call beyond its own variables
IdleObs ==
    [uploadCalls |-> <<>>,          \* per upload call: batch, paths, names sent
     startedAfterCancel |-> {},     \* batches started after cancelUpload()
     answers |-> <<>>,              \* per upload call: how it was answered
     results |-> <<>>,              \* per upload call: the name-to-URL map returned
     insertCalls |-> 0,             \* requests made to the editor
     scanCalls |-> <<>>,            \* the subdirectories buildDirectoryTree was called on
     cancelledAt |-> None]          \* where the call was when cancelled

\* one buildDirectoryTree call: its arguments, locals and promise
NewFrame(currentDepth, parent) ==
    [depth |-> currentDepth,
     parent |-> parent,         \* the directory whose worker awaits this call
     listing |-> TRUE,          \* readdir is outstanding
     launched |-> FALSE,        \* Promise.all(workers) has been reached
     settled |-> "pending",     \* pending, resolved, rejected
     workerRejected |-> FALSE,  \* a worker's promise is rejected
     nodes |-> <<>>,
     filePaths |-> <<>>,
     subDirs |-> <<>>,
     index |-> 0,
     awaiting |-> {}]           \* the subdirectory calls workers await

\* this.uploadAbortController?.signal.aborted
SignalAborted(M) == IsSome(M.ctrl) /\ Get(M.ctrl) \in M.aborted

\* A wrong DirTooDeep: a directory exactly at the limit is let through.
DirTooDeep_OffByOne(currentDepth) == currentDepth + 1 > MAX_DEPTH

\* currentDepth + 1 >= MAX_DEPTH, the test on a directory entry
DirTooDeep(currentDepth) == currentDepth + 1 >= MAX_DEPTH

\* currentDepth >= MAX_DEPTH, the test on entering buildDirectoryTree
DepthExceeded(currentDepth) == currentDepth >= MAX_DEPTH

\* Math.min(MAX_CONCURRENT_SUBDIRS, subDirs.length)
WorkerCount(nSubDirs) == Min(MAX_CONCURRENT_SUBDIRS, nSubDirs)

\* buildDirectoryTree up to its first await: it throws, returns the empty
\* result, or lists the directory
BuildStart(M, currentDepth) ==
    IF DepthExceeded(currentDepth) THEN "throws"
    ELSE IF SignalAborted(M) THEN "empty"
    ELSE "listing"

EmptyScanResult == [tree |-> <<>>, filePaths |-> <<>>]

\* A wrong PushDirectory: the file paths of the subdirectory are not merged.
PushDirectory_NoPaths(M, p, name, result) ==
    [M EXCEPT !.op.frames[p].nodes = Append(@, DirectoryNode(name, result.tree))]

\* nodes.push({name, type: "directory", children}); filePaths.push(...)
PushDirectory(M, p, name, result) ==
    [M EXCEPT !.op.frames[p].nodes = Append(@, DirectoryNode(name, result.tree)),
              !.op.frames[p].filePaths = @ \o result.filePaths]

\* A wrong EntryType: a symbolic link counts as what it points to.
EntryType_Resolved(entry) ==
    IF entry.kind = "symlink" THEN entry.target ELSE entry.kind

\* entry.isFile() / entry.isSymbolicLink() / entry.isDirectory() of a Dirent
EntryType(entry) == entry.kind

\* A wrong FileTooLarge: a file of exactly the ceiling is refused.
FileTooLarge_AtCeiling(size) == size >= MAX_FILE_SIZE

\* size > MAX_FILE_SIZE
FileTooLarge(size) == size > MAX_FILE_SIZE

\* the body of the for loop of buildDirectoryTree for the i-th entry of
\* directory f
ScanEntry(M, f, i) ==
    LET entry == fx.dirs[f][i]
        fullPath == Append(f, entry.name)
        failed == [M EXCEPT !.failedFiles = Append(@, fullPath)]
    IN IF ~defaultFilter(entry.name) THEN M
       ELSE IF M.op.fileCount >= MAX_FILES THEN M
       ELSE IF EntryType(entry) = "file"
       THEN IF fullPath \in fx.statFails THEN failed
            ELSE IF FileTooLarge(entry.size) THEN failed
            ELSE [M EXCEPT !.op.frames[f].filePaths = Append(@, fullPath),
                           !.op.frames[f].nodes = Append(@, FileNode(entry.name, fullPath)),
                           !.op.fileCount = @ + 1]
       ELSE IF EntryType(entry) = "symlink" THEN M
       ELSE IF EntryType(entry) = "directory"
       THEN IF DirTooDeep(M.op.frames[f].depth) THEN failed
            ELSE [M EXCEPT !.op.frames[f].subDirs =
                               Append(@, [name |-> entry.name, path |-> fullPath])]
       ELSE M

\* the entries lo..hi of directory f gone through in order (the first half,
\* then the second half from where the first half left off); once the file
\* counter is at MAX_FILES every later entry is passed over
RECURSIVE ScanRange(_, _, _, _)
ScanRange(M, f, lo, hi) ==
    IF lo > hi \/ M.op.fileCount >= MAX_FILES THEN M
    ELSE IF lo = hi THEN ScanEntry(M, f, lo)
    ELSE LET mid == (lo + hi) \div 2
         IN ScanRange(ScanRange(M, f, lo, mid), f, mid + 1, hi)

\* the for loop of buildDirectoryTree over the entries of directory f,
\* from the i-th entry on
ScanEntries(M, f, i) == ScanRange(M, f, i, Len(fx.dirs[f]))

RECURSIVE WorkerLoop(_, _)
RECURSIVE LaunchWorkers(_, _, _)
RECURSIVE CheckSettle(_, _)
RECURSIVE FrameResolves(_, _)
RECURSIVE FrameRejects(_, _)
RECURSIVE AfterScan(_, _)
RECURSIVE ScanFailed(_)

\* A wrong WorkerLoop: taking a subdirectory moves the cursor by two.
WorkerLoop_SkipsOne(M, p) ==
    LET fr == M.op.frames[p] IN
    IF fr.index >= Len(fr.subDirs) \/ SignalAborted(M) THEN M
    ELSE LET subDir == fr.subDirs[fr.index + 1]
             M1 == [M EXCEPT !.op.frames[p].index = @ + 2,
                             !.obs.scanCalls = Append(@, subDir.path)]
             how == BuildStart(M1, fr.depth + 1)
         IN IF how = "throws"
            THEN [M1 EXCEPT !.op.frames[p].workerRejected = TRUE]
            ELSE IF how = "empty"
            THEN WorkerLoop(PushDirectory(M1, p, subDir.name, EmptyScanResult), p)
            ELSE [M1 EXCEPT !.op.frames[p].awaiting = @ \cup {subDir.path},
                            !.op.frames = MapSet(@, subDir.path,
                                                 NewFrame(fr.depth + 1, Some(p)))]

\* processNext of directory p, run until its next await or its end
WorkerLoop(M, p) ==
    LET fr == M.op.frames[p] IN
    IF fr.index >= Len(fr.subDirs) \/ SignalAborted(M) THEN M
    ELSE LET subDir == fr.subDirs[fr.index + 1]
             M1 == [M EXCEPT !.op.frames[p].index = @ + 1,
                             !.obs.scanCalls = Append(@, subDir.path)]
             how == BuildStart(M1, fr.depth + 1)
         IN IF how = "throws"
            THEN [M1 EXCEPT !.op.frames[p].workerRejected = TRUE]
            ELSE IF how = "empty"
            THEN WorkerLoop(PushDirectory(M1, p, subDir.name, EmptyScanResult), p)
            ELSE [M1 EXCEPT !.op.frames[p].awaiting = @ \cup {subDir.path},
                            !.op.frames = MapSet(@, subDir.path,
                                                 NewFrame(fr.depth + 1, Some(p)))]

\* Array(n).fill(null).map(() => processNext()), the k workers still to start
LaunchWorkers(M, p, k) ==
    IF k = 0 THEN M
    ELSE LaunchWorkers(WorkerLoop(M, p), p, k - 1)

\* A wrong CheckSettle: the call returns without waiting for its workers.
CheckSettle_NoWait(M, p) ==
    LET fr == M.op.frames[p] IN
    IF fr.settled # "pending" \/ ~fr.launched THEN M
    ELSE IF fr.workerRejected THEN FrameRejects(M, p)
    ELSE FrameResolves(M, p)

\* Promise.all(workers) of directory p: it rejects with the first rejected
\* worker and resolves when no worker is left waiting
CheckSettle(M, p) ==
    LET fr == M.op.frames[p] IN
    IF fr.settled # "pending" \/ ~fr.launched THEN M
    ELSE IF fr.workerRejected THEN FrameRejects(M, p)
    ELSE IF fr.awaiting = {} THEN FrameResolves(M, p)
    ELSE M

\* buildDirectoryTree(f) returns {tree: nodes, filePaths}; the worker that
\* awaited it goes on
FrameResolves(M, f) ==
    LET fr == M.op.frames[f]
        M1 == [M EXCEPT !.op.frames[f].settled = "resolved"]
        result == [tree |-> fr.nodes, filePaths |-> fr.filePaths]
    IN IF ~IsSome(fr.parent) THEN AfterScan(M1, result)
       ELSE LET p == Get(fr.parent)
                M2 == [M1 EXCEPT !.op.frames[p].awaiting = @ \ {f}]
                M3 == PushDirectory(M2, p, getFileName(f), result)
            IN CheckSettle(WorkerLoop(M3, p), p)

\* buildDirectoryTree(f) throws; the worker that awaited it is rejected
FrameRejects(M, f) ==
    LET fr == M.op.frames[f]
        M1 == [M EXCEPT !.op.frames[f].settled = "rejected"]
    IN IF ~IsSome(fr.parent) THEN ScanFailed(M1)
       ELSE LET p == Get(fr.parent)
                M2 == [M1 EXCEPT !.op.frames[p].awaiting = @ \ {f},
                                 !.op.frames[p].workerRejected = TRUE]
            IN CheckSettle(M2, p)

\* readdir of directory f answered with its entries
ReaddirResolves(M, f) ==
    LET M1 == ScanEntries([M EXCEPT !.op.frames[f].listing = FALSE], f, 1)
        M2 == LaunchWorkers(M1, f, WorkerCount(Len(M1.op.frames[f].subDirs)))
        M3 == [M2 EXCEPT !.op.frames[f].launched = TRUE]
    IN CheckSettle(M3, f)

\* readdir of directory f failed
ReaddirRejects(M, f) ==
    FrameRejects([M EXCEPT !.op.frames[f].listing = FALSE,
                           !.op.frames[f].launched = TRUE], f)

RECURSIVE BatchLoop(_)
RECURSIVE ChunkLoop(_)

\* the finally block of uploadAndInsert, after the last message shown
Finish(M, kind, success, total, failed) ==
    [M EXCEPT !.op.pc = "done",
              !.op.status = Some([kind |-> kind, success |-> success,
                                  total |-> total, failed |-> failed]),
              !.ctrl = None]

\* the catch block of uploadAndInsert
ScanFailed(M) == Finish(M, "error", 0, 0, 0)

\* A wrong AfterScan: an empty file list is uploaded like any other.
AfterScan_NoEmptyCheck(M, result) ==
    LET M1 == [M EXCEPT !.op.tree = result.tree,
                        !.op.filePaths = result.filePaths]
        n == Len(result.filePaths)
    IN IF n >= MAX_FILES THEN Finish(M1, "tooManyFiles", 0, n, 0)
       ELSE BatchLoop(M1)

\* uploadAndInsert after buildDirectoryTree(dirPath, 0) has returned
AfterScan(M, result) ==
    LET M1 == [M EXCEPT !.op.tree = result.tree,
                        !.op.filePaths = result.filePaths]
        n == Len(result.filePaths)
    IN IF n = 0 THEN Finish(M1, "emptyFolder", 0, 0, 0)
       ELSE IF n >= MAX_FILES THEN Finish(M1, "tooManyFiles", 0, n, 0)
       ELSE BatchLoop(M1)

\* batches.length
NumBatches(n) == (n + BATCH_SIZE - 1) \div BATCH_SIZE

\* A wrong BatchPaths: a batch starts with the last path of the one before.
BatchPaths_Overlapping(filePaths, i) ==
    SubSeq(filePaths, IF i = 0 THEN 1 ELSE i * BATCH_SIZE,
           Min((i + 1) * BATCH_SIZE, Len(filePaths)))

\* batches[i] = filePaths.slice(i * BATCH_SIZE, i * BATCH_SIZE + BATCH_SIZE)
BatchPaths(filePaths, i) ==
    SubSeq(filePaths, i * BATCH_SIZE + 1, Min((i + 1) * BATCH_SIZE, Len(filePaths)))

\* fillTreeUrls(tree, urlMap)
RECURSIVE fillTreeUrls(_, _)
fillTreeUrls(tree, urlMap) ==
    [k \in 1..Len(tree) |->
        LET node == tree[k] IN
        IF node.type = "file" /\ IsSome(node.filePath)
        THEN IF MapHas(urlMap, Get(node.filePath))
             THEN [node EXCEPT !.url = Some(urlMap[Get(node.filePath)])]
             ELSE [node EXCEPT !.filePath = None]
        ELSE IF node.type = "directory"
        THEN [node EXCEPT !.children = fillTreeUrls(node.children, urlMap)]
        ELSE node]

\* uploadAndInsert after uploadFilesInBatches has returned: fillTreeUrls and
\* insertMarkdown up to the request to the editor
AfterUpload(M) ==
    LET tree == fillTreeUrls(M.op.tree, M.op.allResults)
    IN [M EXCEPT !.op.tree = tree,
                 !.op.markdown = Some(generateTreeMarkdown(tree, getFileName(fx.root), 0)),
                 !.op.pc = "insert",
                 !.obs.insertCalls = @ + 1]

\* the top of the for loop of uploadFilesInBatches
BatchLoop(M) ==
    LET i == M.op.batchIndex IN
    IF i >= NumBatches(Len(M.op.filePaths)) \/ SignalAborted(M) THEN AfterUpload(M)
    ELSE ChunkLoop(
           [M EXCEPT !.op.renameMap = generateRenameMap(BatchPaths(M.op.filePaths, i)),
                     !.op.chunkStart = 0,
                     !.op.readOk = {},
                     !.obs.startedAfterCancel =
                         IF IsSome(M.obs.cancelledAt) THEN @ \cup {i} ELSE @])

\* A wrong SendUpload: the files that could not be read are sent as well.
SendUpload_Unfiltered(M) ==
    LET batchPaths == BatchPaths(M.op.filePaths, M.op.batchIndex)
        names == [k \in 1..Len(batchPaths) |-> UploadName(M.op.renameMap, batchPaths[k])]
    IN [M EXCEPT !.op.formData = names,
                 !.op.pc = "fetch",
                 !.obs.uploadCalls =
                     Append(@, [batch |-> M.op.batchIndex, names |-> names,
                                paths |-> batchPaths, renameMap |-> M.op.renameMap,
                                afterCancel |-> IsSome(M.obs.cancelledAt)])]

\* fetch("/api/asset/upload") is issued with the files read successfully
SendUpload(M) ==
    LET batchPaths == BatchPaths(M.op.filePaths, M.op.batchIndex)
        sent == SelectSeq(batchPaths, LAMBDA p : p \in M.op.readOk)
        names == [k \in 1..Len(sent) |-> UploadName(M.op.renameMap, sent[k])]
    IN [M EXCEPT !.op.formData = names,
                 !.op.pc = "fetch",
                 !.obs.uploadCalls =
                     Append(@, [batch |-> M.op.batchIndex, names |-> names,
                                paths |-> batchPaths, renameMap |-> M.op.renameMap,
                                afterCancel |-> IsSome(M.obs.cancelledAt)])]

\* A wrong ChunkPaths: every remaining file of the batch is read at once.
ChunkPaths_WholeBatch(filePaths, i) == SubSeq(filePaths, i + 1, Len(filePaths))

\* filePaths.slice(i, i + MAX_CONCURRENT_READS)
ChunkPaths(filePaths, i) ==
    SubSeq(filePaths, i + 1, Min(i + MAX_CONCURRENT_READS, Len(filePaths)))

\* the top of the for loop of createFormDataFromPaths
ChunkLoop(M) ==
    LET batchPaths == BatchPaths(M.op.filePaths, M.op.batchIndex)
        i == M.op.chunkStart
        chunk == ChunkPaths(batchPaths, i)
    IN IF i >= Len(batchPaths) THEN SendUpload(M)
       ELSE IF SignalAborted(M)
       THEN ChunkLoop([M EXCEPT !.op.chunkStart = @ + MAX_CONCURRENT_READS])
       ELSE [M EXCEPT !.op.reading = {chunk[k] : k \in 1..Len(chunk)},
                      !.op.pc = "read"]

\* fs.promises.readFile(filePath) settles
ReadSettles(M, filePath, ok) ==
    LET M1 == IF ok
              THEN [M EXCEPT !.op.reading = @ \ {filePath},
                             !.op.readOk = @ \cup {filePath}]
              ELSE [M EXCEPT !.op.reading = @ \ {filePath},
                             !.failedFiles = Append(@, filePath)]
    IN IF M1.op.reading = {}
       THEN ChunkLoop([M1 EXCEPT !.op.chunkStart = @ + MAX_CONCURRENT_READS])
       ELSE M1

\* A wrong BatchResults: the code of the answer is not looked at.
BatchResults_IgnoresCode(names, answer) ==
    LET stored == IF answer \in {"stored", "failed"} THEN {names[k] : k \in 1..Len(names)}
                  ELSE IF answer = "partly" THEN {names[k] : k \in 2..Len(names)}
                  ELSE {}
    IN [name \in stored |-> UrlOf(name)]

\* what sendUploadRequest returns for an answer of the server: every file
\* stored, all but the first stored, an error code, or no answer at all
BatchResults(names, answer) ==
    LET stored == IF answer = "stored" THEN {names[k] : k \in 1..Len(names)}
                  ELSE IF answer = "partly" THEN {names[k] : k \in 2..Len(names)}
                  ELSE {}
    IN [name \in stored |-> UrlOf(name)]

\* A wrong CollectBatch: the URL is looked up under the original basename.
RECURSIVE CollectBatch_ByBasename(_, _, _, _)
CollectBatch_ByBasename(M, batchPaths, k, batchResults) ==
    IF k > Len(batchPaths) THEN M
    ELSE LET filePath == batchPaths[k]
             uploadedName == getFileName(filePath)
         IN CollectBatch_ByBasename(
              IF MapHas(batchResults, uploadedName)
              THEN [M EXCEPT !.op.allResults = MapSet(@, filePath, batchResults[uploadedName])]
              ELSE [M EXCEPT !.failedFiles = Append(@, filePath)],
              batchPaths, k + 1, batchResults)

\* for (const filePath of batchPaths) of uploadFilesInBatches, from the k-th
RECURSIVE CollectBatch(_, _, _, _)
CollectBatch(M, batchPaths, k, batchResults) ==
    IF k > Len(batchPaths) THEN M
    ELSE LET filePath == batchPaths[k]
             uploadedName == UploadName(M.op.renameMap, filePath)
         IN CollectBatch(
              IF MapHas(batchResults, uploadedName) /\ Len(batchResults[uploadedName]) > 0
              THEN [M EXCEPT !.op.allResults = MapSet(@, filePath, batchResults[uploadedName])]
              ELSE [M EXCEPT !.failedFiles = Append(@, filePath)],
              batchPaths, k + 1, batchResults)

\* the upload request settles
FetchSettles(M, answer) ==
    LET batchPaths == BatchPaths(M.op.filePaths, M.op.batchIndex)
        batchResults == BatchResults(M.op.formData, answer)
        M1 == CollectBatch(M, batchPaths, 1, batchResults)
    IN BatchLoop([M1 EXCEPT !.op.batchIndex = @ + 1,
                            !.obs.answers = Append(@, answer),
                            !.obs.results = Append(@, batchResults)])

\* A wrong InsertSettles: a failed insertion ends the operation with the error.
InsertSettles_Raises(M0, ok) ==
    LET M == [M0 EXCEPT !.op.insertLogged = ~ok]
        total == Len(M.op.filePaths)
        failed == Len(M.failedFiles)
    IN IF ~ok THEN ScanFailed(M)
       ELSE IF failed > 0
       THEN Finish(M, "partialFailed", total - failed, total, failed)
       ELSE Finish(M, "success", total, total, 0)

\* the insertBlock request settles; a failure is logged by insertToEditor
InsertSettles(M0, ok) ==
    LET M == [M0 EXCEPT !.op.insertLogged = ~ok]
        total == Len(M.op.filePaths)
        failed == Len(M.failedFiles)
    IN IF failed > 0
       THEN Finish(M, "partialFailed", total - failed, total, failed)
       ELSE Finish(M, "success", total, total, 0)

----------------------------------------------------------------------------
(* Folders the operation is run on.  A path is the sequence of its          *)
(* components; the folder clicked is ROOT.                                  *)

WideWidth == 4
FlatFiles == 11

Entry(name, kind, size) ==
    [name |-> name, kind |-> kind, size |-> size, target |-> kind]
\* a symbolic link to a file or to a directory
SymlinkEntry(name, target) == [Entry(name, "symlink", 0) EXCEPT !.target = target]
FileEntry(name) == Entry(name, "file", 1)
DirEntry(name) == Entry(name, "directory", 0)

ROOT == << <<"R">> >>

Folder(kind, dirs, unreadableDirs, unreadableFiles, answers, nOps, chainLen) ==
    [kind |-> kind, root |-> ROOT, link |-> <<SEP, "R">>, dirs |-> dirs,
     unreadableDirs |-> unreadableDirs, unreadableFiles |-> unreadableFiles,
     statFails |-> {}, answers |-> answers, nOps |-> nOps, chainLen |-> chainLen]

\* [dir a, file x, dir b]: files and directories interleaved in the listing
MixedDirs ==
    (ROOT :> <<DirEntry(<<"a">>), FileEntry(<<"x">>), DirEntry(<<"b">>)>>)
    @@ (Append(ROOT, <<"a">>) :> <<FileEntry(<<"y">>)>>)
    @@ (Append(ROOT, <<"b">>) :> <<FileEntry(<<"z">>)>>)

NodeModules == <<"n", "o", "d", "e", "_", "m", "o", "d", "u", "l", "e", "s">>
DotGit == <<".", "g", "i", "t">>
DotIdea == <<".", "i", "d", "e", "a">>

\* entries of every sort: symbolic links to a directory and to a file, files
\* of one byte more than MAX_FILE_SIZE and of exactly MAX_FILE_SIZE, dotfiles,
\* "~" files and tooling directories, at the top and one level down
EntriesDirs ==
    LET a == Append(ROOT, <<"a">>)
        big == Entry(<<"g">>, "file", MAX_FILE_SIZE + 1)
        inside == <<FileEntry(<<"t">>)>>
    IN (ROOT :> <<SymlinkEntry(<<"l">>, "directory"), big,
                  Entry(<<"e">>, "file", MAX_FILE_SIZE), FileEntry(<<"x">>),
                  DirEntry(<<"a">>), FileEntry(<<".", "h">>), FileEntry(<<"~", "t">>),
                  DirEntry(NodeModules), DirEntry(DotGit)>>)
       @@ (a :> <<SymlinkEntry(<<"k">>, "file"), DirEntry(DotIdea), FileEntry(<<"y">>),
                  DirEntry(NodeModules), big, FileEntry(<<".", "h">>)>>)
       @@ (Append(ROOT, <<"l">>) :> inside)
       @@ (Append(ROOT, NodeModules) :> inside)
       @@ (Append(ROOT, DotGit) :> inside)
       @@ (Append(a, NodeModules) :> inside)
       @@ (Append(a, DotIdea) :> inside)

WideNameSeq == << <<"a">>, <<"b">>, <<"c">>, <<"d">>, <<"e">>, <<"f">> >>

\* n subdirectories under ROOT, one file in each
WideDirs(n) ==
    [d \in {ROOT} \cup {Append(ROOT, WideNameSeq[k]) : k \in 1..n} |->
        IF d = ROOT THEN [k \in 1..n |-> DirEntry(WideNameSeq[k])]
        ELSE <<FileEntry(<<"y">>)>>]

\* two subdirectories, each with two subdirectories of one file
NestedDirs ==
    LET a == Append(ROOT, <<"a">>)
        b == Append(ROOT, <<"b">>)
        inner == {Append(a, <<"c">>), Append(a, <<"d">>),
                  Append(b, <<"c">>), Append(b, <<"d">>)}
    IN [d \in {ROOT, a, b} \cup inner |->
          IF d = ROOT THEN <<DirEntry(<<"a">>), DirEntry(<<"b">>)>>
          ELSE IF d \in {a, b} THEN <<DirEntry(<<"c">>), DirEntry(<<"d">>)>>
          ELSE <<FileEntry(<<"y">>)>>]

\* ROOT/c/c/.../c with k components c
RECURSIVE ChainPath(_)
ChainPath(k) == IF k = 0 THEN ROOT ELSE Append(ChainPath(k - 1), <<"c">>)

SiblingPath == Append(ROOT, <<"s">>)

\* a chain of n nested directories under ROOT, a file in each, and a
\* sibling branch ROOT/s of one file
ChainDirs(n) ==
    [d \in {ChainPath(k) : k \in 0..n} \cup {SiblingPath} |->
        IF d = SiblingPath THEN <<FileEntry(<<"y">>)>>
        ELSE (IF Len(d) - 1 < n THEN <<DirEntry(<<"c">>)>> ELSE <<>>)
             \o (IF d = ROOT THEN <<DirEntry(<<"s">>)>> ELSE <<FileEntry(<<"z">>)>>)]

FlatNameSeq ==
    << <<"a">>, <<"b">>, <<"c">>, <<"d">>, <<"e">>, <<"f">>, <<"g">>,
       <<"h">>, <<"i">>, <<"j">>, <<"k">>, <<"l">>, <<"m">> >>

\* n files directly under ROOT
FlatDirs(n) == ROOT :> [k \in 1..n |-> FileEntry(FlatNameSeq[k])]

\* a directory of MAX_FILES - 1 files beside a directory of two files and a
\* subdirectory: the ceiling is reached in the one that is listed last
ManyDirs ==
    LET b == Append(ROOT, <<"b">>)
    IN (ROOT :> <<DirEntry(<<"a">>), DirEntry(<<"b">>)>>)
       @@ (Append(ROOT, <<"a">>) :>
              [k \in 1..(MAX_FILES - 1) |-> FileEntry(<<"f">> \o NumToString(k))])
       @@ (b :> <<FileEntry(<<"x">>), FileEntry(<<"y">>), DirEntry(<<"d">>)>>)
       @@ (Append(b, <<"d">>) :> <<FileEntry(<<"z">>)>>)

\* a file x at the top and a file x in each of two subdirectories
DupsDirs ==
    (ROOT :> <<DirEntry(<<"a">>), DirEntry(<<"b">>), FileEntry(<<"x">>)>>)
    @@ (Append(ROOT, <<"a">>) :> <<FileEntry(<<"x">>)>>)
    @@ (Append(ROOT, <<"b">>) :> <<FileEntry(<<"x">>)>>)

\* a folder without any eligible file: an empty subdirectory, a symbolic
\* link, an oversized file, a dotfile and a tooling directory
HollowDirs ==
    (ROOT :> <<DirEntry(<<"a">>), SymlinkEntry(<<"l">>, "file"),
               Entry(<<"g">>, "file", MAX_FILE_SIZE + 1), FileEntry(<<".", "h">>),
               DirEntry(NodeModules)>>)
    @@ (Append(ROOT, <<"a">>) :> <<>>)
    @@ (Append(ROOT, NodeModules) :> <<FileEntry(<<"t">>)>>)

\* a folder without entries
EmptyDirs == ROOT :> <<>>

\* exactly MAX_FILES eligible files: one at the top, the others in a
\* subdirectory
ExactDirs ==
    (ROOT :> <<DirEntry(<<"a">>), FileEntry(<<"x">>)>>)
    @@ (Append(ROOT, <<"a">>) :>
           [k \in 1..(MAX_FILES - 1) |-> FileEntry(<<"f">> \o NumToString(k))])

Answers == {"stored", "partly", "failed", "thrown"}

Fixtures ==
    {Folder("mixed", MixedDirs, {}, {}, {"stored"}, 1, 0),
     Folder("mixed", MixedDirs, {Append(ROOT, <<"b">>)}, {}, {"stored"}, 1, 0),
     Folder("twice", MixedDirs, {}, {}, {"stored"}, 2, 0),
     Folder("wide", WideDirs(WideWidth), {}, {}, {"stored"}, 1, 0),
     Folder("nested", NestedDirs, {}, {}, {"stored"}, 1, 0),
     Folder("entries", EntriesDirs, {}, {}, {"stored"}, 1, 0),
     Folder("many", ManyDirs, {}, {}, {"stored"}, 1, 0),
     Folder("both", EntriesDirs, {}, {}, {"stored"}, 2, 0),
     Folder("hollow", HollowDirs, {}, {}, {"stored"}, 1, 0),
     Folder("empty", EmptyDirs, {}, {}, {"stored"}, 1, 0),
     Folder("exact", ExactDirs, {}, {}, {"stored"}, 1, 0)}
    \cup {Folder("chain", ChainDirs(n), {}, {}, {"stored"}, 1, n) :
             n \in (MAX_DEPTH - 1)..(MAX_DEPTH + 1)}
    \cup {Folder("flat", FlatDirs(FlatFiles), {}, U, Answers, 1, 0) :
             U \in {{}, {Append(ROOT, FlatNameSeq[1])}}}
    \cup {Folder("dups", DupsDirs, {}, U, {"stored"}, 1, 0) :
             U \in {{}, {Append(Append(ROOT, <<"a">>), <<"x">>)}}}

----------------------------------------------------------------------------
(* The operation as a state machine: one step per call of the plugin and    *)
(* per completion of a request it is waiting for, each run up to the next   *)
(* wait.                                                                    *)

OpIds == DOMAIN ops

MachineOf(o) ==
    [failedFiles |-> failedFiles, ctrl |-> uploadAbortController,
     aborted |-> abortedSignals, op |-> ops[o], obs |-> obs[o]]

Commit(o, M) ==
    /\ failedFiles' = M.failedFiles
    /\ uploadAbortController' = M.ctrl
    /\ abortedSignals' = M.aborted
    /\ ops' = [ops EXCEPT ![o] = M.op]
    /\ obs' = [obs EXCEPT ![o] = M.obs]
    /\ UNCHANGED <<fx, validateVars, renameVars, renderVars>>

Init ==
    /\ fx \in Fixtures
    /\ failedFiles = <<>>
    /\ uploadAbortController = None
    /\ abortedSignals = {}
    /\ ops = [o \in 1..fx.nOps |-> IdleOp]
    /\ obs = [o \in 1..fx.nOps |-> IdleObs]
    /\ ValidateIdle
    /\ RenameIdle
    /\ RenderIdle

\* uploadAndInsert(dirPath, blockId) up to the first readdir
uploadAndInsert(o) ==
    /\ ops[o].pc = "idle"
    /\ LET M0 == [failedFiles |-> <<>>, ctrl |-> Some(o),
                  aborted |-> abortedSignals,
                  op |-> [IdleOp EXCEPT !.pc = "scan"], obs |-> obs[o]]
           how == BuildStart(M0, 0)
       IN Commit(o, IF how = "throws" THEN ScanFailed(M0)
                    ELSE IF how = "empty" THEN AfterScan(M0, EmptyScanResult)
                    ELSE [M0 EXCEPT !.op.frames = MapSet(@, fx.root, NewFrame(0, None))])

\* the readdir of directory d completes
ReaddirSettles(o, d) ==
    /\ d \in DOMAIN ops[o].frames
    /\ ops[o].frames[d].listing
    /\ Commit(o, IF d \in fx.unreadableDirs THEN ReaddirRejects(MachineOf(o), d)
                 ELSE ReaddirResolves(MachineOf(o), d))

\* the readFile of filePath completes
ReadFileSettles(o, filePath) ==
    /\ ops[o].pc = "read"
    /\ filePath \in ops[o].reading
    /\ Commit(o, ReadSettles(MachineOf(o), filePath, filePath \notin fx.unreadableFiles))

\* the upload request completes
UploadSettles(o) ==
    /\ ops[o].pc = "fetch"
    /\ \E answer \in fx.answers : Commit(o, FetchSettles(MachineOf(o), answer))

\* the insertBlock request completes
InsertBlockSettles(o) ==
    /\ ops[o].pc = "insert"
    /\ \E ok \in BOOLEAN : Commit(o, InsertSettles(MachineOf(o), ok))

\* cancelUpload()
cancelUpload ==
    /\ IsSome(uploadAbortController)
    /\ LET o == Get(uploadAbortController) IN
        /\ abortedSignals' = abortedSignals \cup {o}
        /\ obs' = [obs EXCEPT ![o].cancelledAt =
                        Some([pc |-> ops[o].pc, batchIndex |-> ops[o].batchIndex,
                              uploaded |-> DOMAIN ops[o].allResults,
                              frames |-> DOMAIN ops[o].frames,
                              failedFiles |-> failedFiles])]
    /\ uploadAbortController' = None
    /\ UNCHANGED <<fx, failedFiles, ops, validateVars, renameVars, renderVars>>

Next ==
    \/ \E o \in OpIds : uploadAndInsert(o)
    \/ \E o \in OpIds : \E d \in DOMAIN fx.dirs : ReaddirSettles(o, d)
    \/ \E o \in OpIds : \E filePath \in ops[o].reading : ReadFileSettles(o, filePath)
    \/ \E o \in OpIds : UploadSettles(o)
    \/ \E o \in OpIds : InsertBlockSettles(o)
    \/ cancelUpload

Spec == Init /\ [][Next]_vars

----------------------------------------------------------------------------
(* Properties of the operation                                              *)

Range(seq) == {seq[k] : k \in 1..Len(seq)}
CountIn(seq, x) == Cardinality({k \in 1..Len(seq) : seq[k] = x})

\* C1: once cancelUpload() has been called on a running operation, no upload
\* call is issued for a batch whose start checkpoint comes after the cancel,
\* and the URLs resolved before the cancel stay in the path-to-URL result.
C1_NoBatchAfterCancel ==
    \A o \in OpIds :
        /\ \A k \in 1..Len(obs[o].uploadCalls) :
              obs[o].uploadCalls[k].batch \notin obs[o].startedAfterCancel
        /\ IsSome(obs[o].cancelledAt) =>
              Get(obs[o].cancelledAt).uploaded \subseteq DOMAIN ops[o].allResults

\* the names of the entries of directory d that became nodes, in the order
\* the listing returned them
ListedNames(d, nodes) ==
    LET names == [k \in 1..Len(fx.dirs[d]) |-> fx.dirs[d][k].name]
        kept == {nodes[k].name : k \in 1..Len(nodes)}
    IN SelectSeq(names, LAMBDA n : n \in kept)

\* C2: for every directory whose scan has returned, the order of its nodes
\* equals the order of its entries in the directory listing, whatever the
\* order in which the subdirectory scans completed.
C2_NodeOrderIsListingOrder ==
    \A o \in OpIds : \A d \in DOMAIN ops[o].frames :
        ops[o].frames[d].settled = "resolved" =>
            [k \in 1..Len(ops[o].frames[d].nodes) |-> ops[o].frames[d].nodes[k].name]
                = ListedNames(d, ops[o].frames[d].nodes)

\* the recursive buildDirectoryTree calls whose directory listing is
\* outstanding; calls waiting only for their own subdirectories are left out
ListingCalls(o) ==
    {d \in DOMAIN ops[o].frames :
        /\ IsSome(ops[o].frames[d].parent)
        /\ ops[o].frames[d].settled = "pending"
        /\ ops[o].frames[d].listing}

\* C6: at every moment of a scan at most MAX_CONCURRENT_SUBDIRS recursive
\* buildDirectoryTree calls are in flight, whatever the width and the nesting
\* of the folder.
C6_AtMostThreeCallsInFlight ==
    \A o \in OpIds : Cardinality(ListingCalls(o)) <= MAX_CONCURRENT_SUBDIRS

\* whether the tree holds the directory named by the components below ROOT
RECURSIVE DirPresent(_, _)
DirPresent(tree, names) ==
    \/ names = <<>>
    \/ \E k \in 1..Len(tree) :
        /\ tree[k].type = "directory"
        /\ tree[k].name = names[1]
        /\ DirPresent(tree[k].children, Tail(names))

\* whether the tree holds a file name in the directory named by dirNames
RECURSIVE FilePresent(_, _, _)
FilePresent(tree, dirNames, name) ==
    IF dirNames = <<>>
    THEN \E k \in 1..Len(tree) : tree[k].type = "file" /\ tree[k].name = name
    ELSE \E k \in 1..Len(tree) :
            /\ tree[k].type = "directory"
            /\ tree[k].name = dirNames[1]
            /\ FilePresent(tree[k].children, Tail(dirNames), name)

\* the components of the k-th directory of the chain below ROOT
ChainNames(k) == Tail(ChainPath(k))

Scanned(o) == ops[o].pc \notin {"idle", "scan"}
ScanError(o) == IsSome(ops[o].status) /\ Get(ops[o].status).kind = "error"

\* C7 as stated: a chain of exactly MAX_DEPTH nested directories below the
\* root is scanned with every directory of the chain in the tree; with one
\* more level only the directory beyond MAX_DEPTH is missing and the sibling
\* branch is in the tree.
C7_ChainOfMaxDepthPresent ==
    \A o \in OpIds :
        (fx.kind = "chain" /\ fx.chainLen >= MAX_DEPTH /\ Scanned(o)) =>
            /\ ~ScanError(o)
            /\ \A k \in 1..MAX_DEPTH : DirPresent(ops[o].tree, ChainNames(k))
            /\ FilePresent(ops[o].tree, <<<<"s">>>>, <<"y">>)

\* C7: a chain of MAX_DEPTH - 1 nested directories below the root (MAX_DEPTH
\* levels with the root) is scanned with every directory and its file in the
\* tree; of a longer chain, the directory at nesting MAX_DEPTH is left out of
\* the tree and put on the failure list, the scan does not fail, and the
\* directories above it and the sibling branch are in the tree.
C7_ChainWithinDepthPresent ==
    \A o \in OpIds :
        (fx.kind = "chain" /\ Scanned(o)) =>
            /\ ~ScanError(o)
            /\ \A k \in 1..Min(fx.chainLen, MAX_DEPTH - 1) :
                /\ DirPresent(ops[o].tree, ChainNames(k))
                /\ FilePresent(ops[o].tree, ChainNames(k), <<"z">>)
            /\ fx.chainLen >= MAX_DEPTH =>
                /\ ~DirPresent(ops[o].tree, ChainNames(MAX_DEPTH))
                /\ CountIn(failedFiles, ChainPath(MAX_DEPTH)) = 1
            /\ FilePresent(ops[o].tree, <<<<"s">>>>, <<"y">>)

\* C7 witness: the scan of a chain one level longer than MAX_DEPTH has
\* returned, with the directory at nesting MAX_DEPTH on the failure list.
C7_Witness ==
    \E o \in OpIds :
        /\ fx.kind = "chain" /\ fx.chainLen = MAX_DEPTH + 1
        /\ ops[o].pc = "done"
        /\ ChainPath(MAX_DEPTH) \in Range(failedFiles)
        /\ DirPresent(ops[o].tree, ChainNames(MAX_DEPTH - 1))

\* C8: when an operation is cancelled while it uploads, it ends without an
\* error and the succeeded count of its final status covers no file beyond
\* the batches that had started when it was cancelled.
C8_CountsReflectWorkBeforeCancel ==
    \A o \in OpIds :
        (/\ ops[o].pc = "done"
         /\ IsSome(obs[o].cancelledAt)
         /\ Get(obs[o].cancelledAt).pc \in {"read", "fetch"}) =>
            LET started == Min((Get(obs[o].cancelledAt).batchIndex + 1) * BATCH_SIZE,
                               Len(ops[o].filePaths))
            IN /\ ~ScanError(o)
               /\ Get(ops[o].status).success <= started

\* C9: every file of a batch whose upload call failed as a whole (error code
\* or no answer) has no URL, is rendered as a code span without a link, and
\* is on the failure list exactly once.
C9_FailedBatchFilesListedOnce ==
    \A o \in OpIds :
        ops[o].pc = "done" =>
            \A b \in 1..Len(obs[o].answers) :
                obs[o].answers[b] \in {"failed", "thrown"} =>
                    \A filePath \in Range(BatchPaths(ops[o].filePaths, b - 1)) :
                        /\ ~MapHas(ops[o].allResults, filePath)
                        /\ \A line \in Range(Get(ops[o].markdown)) :
                              line.name = getFileName(filePath) =>
                                  line.kind = "code" /\ line.ref = None
                        /\ \E line \in Range(Get(ops[o].markdown)) :
                              line.name = getFileName(filePath)
                        /\ CountIn(failedFiles, filePath) = 1

----------------------------------------------------------------------------
(* From the link to the operation: the menu of a file:// link is opened,    *)
(* isValidFilePath decides whether the upload item is added, and a click    *)
(* on the item starts uploadAndInsert on the path of the link.              *)

\* the directory a path names: its components after path resolution
Resolve(filePath) == PathComponents(Normalize(filePath))

\* the disk: the protected root /a/w with data of the host below it, beside
\* /a/x and /b/y
WorldDirs ==
    LET a == << <<"a">> >>
        w == << <<"a">>, <<"w">> >>
        d == << <<"a">>, <<"w">>, <<"d">> >>
        b == << <<"b">> >>
    IN (<<>> :> <<DirEntry(<<"a">>), DirEntry(<<"b">>)>>)
       @@ (a :> <<DirEntry(<<"w">>), FileEntry(<<"x">>)>>)
       @@ (w :> <<FileEntry(<<"n">>), DirEntry(<<"d">>)>>)
       @@ (d :> <<FileEntry(<<"m">>)>>)
       @@ (b :> <<FileEntry(<<"y">>)>>)

\* the paths of the links clicked
LinkPaths ==
    {<<SEP>>,
     <<SEP, "a">>,
     <<SEP, "a", SEP>>,
     <<SEP, "a", SEP, "w">>,
     <<SEP, "a", SEP, "w", SEP>>,
     <<SEP, "a", SEP, "w", SEP, "d">>,
     <<SEP, "b">>,
     <<SEP, "b", SEP>>,
     <<SEP, "a", SEP, ".", ".">>,
     <<SEP, "b", SEP, ".", ".", SEP, "a">>,
     <<SEP, "c">>,
     <<>>,
     <<" ">>}

LinkFixtures ==
    {[Folder("link", WorldDirs, {}, {}, {"stored"}, 1, 0)
         EXCEPT !.link = filePath, !.root = Resolve(filePath)] : filePath \in LinkPaths}

\* isDirectory(dirPath): fs.statSync(dirPath).isDirectory(), false on error
isDirectory(dirPath) ==
    /\ Len(dirPath) > 0
    /\ dirPath[1] = SEP
    /\ Resolve(dirPath) \in DOMAIN fx.dirs

InitLink ==
    /\ fx \in LinkFixtures
    /\ failedFiles = <<>>
    /\ uploadAbortController = None
    /\ abortedSignals = {}
    /\ ops = [o \in 1..fx.nOps |-> IdleOp]
    /\ obs = [o \in 1..fx.nOps |-> IdleObs]
    /\ normalizedWorkspaceDir = None
    /\ vPc = "constructed"
    /\ vPath = <<>>
    /\ vResult = None
    /\ RenameIdle
    /\ RenderIdle

\* handleOpenMenuLink -> isValidFilePath(filePath, element, menu): the upload
\* item is added ("menu") or not ("refused")
isValidFilePath ==
    /\ vPc = "loaded"
    /\ vPath' = fx.link
    /\ \E hasBlockId \in BOOLEAN :
        IF ~hasBlockId \/ ~isDirectory(fx.link)
        THEN vResult' = None /\ vPc' = "refused"
        ELSE /\ vResult' = Some(validatePath(normalizedWorkspaceDir, fx.link))
             /\ vPc' = IF validatePath(normalizedWorkspaceDir, fx.link).valid
                       THEN "menu" ELSE "refused"
    /\ UNCHANGED <<normalizedWorkspaceDir, renameVars, renderVars, opVars>>

\* A wrong ClickUpload: the upload can be started whatever isValidFilePath
\* found.
ClickUpload_Unguarded(o) == uploadAndInsert(o)

\* click: () => this.uploadAndInsert(filePath, blockId)
ClickUpload(o) ==
    /\ vPc = "menu"
    /\ uploadAndInsert(o)

NextLink ==
    \/ initSiyuanWorkspaceDir
    \/ isValidFilePath
    \/ \E o \in OpIds : ClickUpload(o)
    \/ \E o \in OpIds : \E d \in DOMAIN fx.dirs : ReaddirSettles(o, d)
    \/ \E o \in OpIds : \E filePath \in ops[o].reading : ReadFileSettles(o, filePath)
    \/ \E o \in OpIds : UploadSettles(o)
    \/ \E o \in OpIds : InsertBlockSettles(o)
    \/ cancelUpload

SpecLink == InitLink /\ [][NextLink]_vars

ProtectedRoot == PathComponents(WorkspaceDirConfig)

\* the files an operation has put on its flat list, is reading or has read
FilesTouched(o) ==
    Range(ops[o].filePaths) \cup ops[o].reading \cup ops[o].readOk
        \cup UNION {Range(ops[o].frames[d].filePaths) : d \in DOMAIN ops[o].frames}

\* C13: with a protected root configured, every path on the flat file list of
\* an operation (and so every file read or submitted) is strictly below the
\* scan root and not at or below the protected root.
C13_NoFileBelowProtectedRoot ==
    IsSome(normalizedWorkspaceDir) =>
        \A o \in OpIds : \A filePath \in FilesTouched(o) :
            /\ IsPrefixSeq(fx.root, filePath)
            /\ filePath # fx.root
            /\ ~IsPrefixSeq(ProtectedRoot, filePath)

\* C14: for a link whose path validatePath rejects (traversal token, blank,
\* ancestor of or equal to the protected root, below it), the operation never
\* leaves its initial state: no directory listing, file read, upload call or
\* insertion is issued.
C14_InvalidRootStartsNothing ==
    \A o \in OpIds :
        ~validatePath(normalizedWorkspaceDir, fx.link).valid =>
            /\ ops[o] = IdleOp
            /\ obs[o] = IdleObs
            /\ failedFiles = <<>>

\* C14 witness: isValidFilePath has run on an existing directory that
\* validatePath rejects as an ancestor of the protected root, and the upload
\* item was not added.
C14_Witness ==
    /\ vPc = "refused"
    /\ IsSome(vResult)
    /\ Get(vResult) = ValidationResult(FALSE, "workspaceAncestor")
    /\ \A o \in OpIds : ops[o] = IdleOp

----------------------------------------------------------------------------
(* Properties of the scan of single entries                                 *)

\* the paths of the entries of the folder that satisfy Test
EntryPaths(Test(_)) ==
    UNION {{Append(d, fx.dirs[d][k].name) :
               k \in {j \in 1..Len(fx.dirs[d]) : Test(fx.dirs[d][j])}}
           : d \in DOMAIN fx.dirs}

IsSymlinkEntry(entry) == entry.kind = "symlink"
IsHiddenEntry(entry) ==
    \/ (Len(entry.name) > 0 /\ entry.name[1] \in {".", "~"})
    \/ entry.name \in {NodeModules, DotGit, DotIdea, <<".", "v", "s", "c", "o", "d", "e">>}

\* nothing at or below path was listed, put on the file list, read or uploaded
NeverEntered(o, path) ==
    /\ \A d \in DOMAIN ops[o].frames : ~IsPrefixSeq(path, d)
    /\ \A filePath \in FilesTouched(o) \cup DOMAIN ops[o].allResults :
          ~IsPrefixSeq(path, filePath)

ScanDone(o) == ops[o].pc = "done" /\ ~ScanError(o) /\ Len(ops[o].filePaths) > 0

\* C16: a symbolic-link entry is never followed: no directory at or below a
\* symlink is listed and no path at or below a symlink is on the flat file
\* list, read or uploaded.
C16_SymlinkNeverFollowed ==
    \A o \in OpIds : \A path \in EntryPaths(IsSymlinkEntry) : NeverEntered(o, path)

\* C16 witness: the operation on the folder with a symlink to a directory
\* and a symlink to a file has finished, the file beside the symlink uploaded.
C16_Witness ==
    \E o \in OpIds :
        /\ fx.kind = "entries"
        /\ ScanDone(o)
        /\ EntryPaths(IsSymlinkEntry) # {}
        /\ MapHas(ops[o].allResults, Append(Append(ROOT, <<"a">>), <<"y">>))

C18_HiddenEntriesNeverSeen ==
    \A o \in OpIds :
        /\ \A path \in EntryPaths(IsHiddenEntry) :
            /\ NeverEntered(o, path)
            /\ \A failed \in Range(failedFiles) : ~IsPrefixSeq(path, failed)
        /\ \A d \in DOMAIN ops[o].frames : \A n \in Range(ops[o].frames[d].nodes) :
            ~IsHiddenEntry(n)
        /\ LET pre == PreOrder(ops[o].tree, 1)
           IN \A k \in 1..Len(pre) : ~IsHiddenEntry(pre[k].node)

\* C18 witness: the operation on the folder with dotfiles, "~" files and
\* tooling directories at two levels has finished.
C18_Witness ==
    \E o \in OpIds :
        /\ fx.kind = "entries"
        /\ ScanDone(o)
        /\ Append(ROOT, NodeModules) \in EntryPaths(IsHiddenEntry)
        /\ Append(Append(ROOT, <<"a">>), DotIdea) \in EntryPaths(IsHiddenEntry)
        /\ DirPresent(ops[o].tree, << <<"a">> >>)

\* C20: when a directory whose subdirectories would meet MAX_DEPTH holds a
\* subdirectory, the depth error reaches the caller of the scan (the
\* operation ends with the error message) and the too-deep directory is not
\* put on the failure list like an entry that could not be read.
C20_DepthExceededPropagates ==
    \A o \in OpIds :
        (fx.kind = "chain" /\ fx.chainLen >= MAX_DEPTH /\ ops[o].pc = "done") =>
            /\ ScanError(o)
            /\ ChainPath(MAX_DEPTH) \notin Range(failedFiles)

----------------------------------------------------------------------------
(* Properties of failures, of the scan result and of the upload phase       *)

\* C21: a failure on one entry of a scan, be it a file that cannot be stat'ed
\* or a subdirectory whose listing fails, is recovered from: the path of the
\* entry is on the failure list, the other entries and the sibling directories
\* are scanned, and the operation does not end with the error.
C21_EntryFailureRecoverable ==
    \A o \in OpIds :
        (fx.nOps = 1 /\ ops[o].pc = "done") =>
            /\ ~ScanError(o)
            /\ \A path \in fx.unreadableDirs \cup fx.statFails :
                  path \in Range(failedFiles)

\* the source paths of the File nodes of a tree, in pre-order
FileNodePaths(tree) ==
    LET files == SelectSeq(PreOrder(tree, 1),
                           LAMBDA e : e.node.type = "file" /\ IsSome(e.node.filePath))
    IN [k \in 1..Len(files) |-> Get(files[k].node.filePath)]

\* C22: for the result of every buildDirectoryTree call, at every depth and
\* whatever the order in which the subdirectory scans completed, the flat
\* file list holds the source path of each File node of the tree exactly once
\* and nothing else.
C22_FileListMatchesTree ==
    \A o \in OpIds : \A d \in DOMAIN ops[o].frames :
        ops[o].frames[d].settled = "resolved" =>
            LET fr == ops[o].frames[d]
                inTree == FileNodePaths(fr.nodes)
            IN /\ Range(fr.filePaths) = Range(inTree)
               /\ \A filePath \in Range(inTree) :
                     CountIn(fr.filePaths, filePath) = 1 /\ CountIn(inTree, filePath) = 1
               /\ Len(fr.filePaths) = Len(inTree)

\* C22 witness: the scan of the folder with two levels of subdirectories has
\* returned a list of four files.
C22_Witness ==
    \E o \in OpIds :
        /\ fx.kind = "nested"
        /\ ROOT \in DOMAIN ops[o].frames
        /\ ops[o].frames[ROOT].settled = "resolved"
        /\ Len(ops[o].frames[ROOT].filePaths) = 4
        /\ Len(FileNodePaths(ops[o].frames[ROOT].nodes)) = 4

\* C23: when the tree is rendered, no File node has both a source path and a
\* URL: a node is linked (URL only) or unlinked (neither).
C23_PathOrUrlNotBoth ==
    \A o \in OpIds :
        IsSome(ops[o].markdown) =>
            LET pre == PreOrder(ops[o].tree, 1)
            IN \A k \in 1..Len(pre) :
                  pre[k].node.type = "file" =>
                      ~(IsSome(pre[k].node.filePath) /\ IsSome(pre[k].node.url))

\* C24: the file counter never passes MAX_FILES and no flat file list holds
\* more than MAX_FILES paths; reaching the ceiling does not end the scan with
\* the error; and in every directory listed a subdirectory entry is recorded
\* for scanning also when the ceiling has been reached before it.
C24_CeilingDropsFilesOnly ==
    \A o \in OpIds :
        /\ ops[o].fileCount <= MAX_FILES
        /\ Len(ops[o].filePaths) <= MAX_FILES
        /\ (fx.kind = "many" /\ ops[o].pc = "done") => ~ScanError(o)
        /\ \A d \in DOMAIN ops[o].frames :
              LET fr == ops[o].frames[d] IN
              /\ Len(fr.filePaths) <= MAX_FILES
              /\ (~fr.listing /\ d \notin fx.unreadableDirs /\ ~DirTooDeep(fr.depth)) =>
                    \A k \in 1..Len(fx.dirs[d]) :
                        LET entry == fx.dirs[d][k] IN
                        (entry.kind = "directory" /\ ~IsHiddenEntry(entry)) =>
                            \E j \in 1..Len(fr.subDirs) :
                                fr.subDirs[j].path = Append(d, entry.name)

\* C25: the k-th upload call of an operation is for batch k, whose paths are
\* the next BATCH_SIZE paths of the flat file list after those of batch k - 1
\* (fewer for the last batch, never none), and a call is issued only when
\* every call before it has been answered, so at most one is in flight.
C25_BatchesOfTenInOrder ==
    \A o \in OpIds :
        LET calls == obs[o].uploadCalls
            filePaths == ops[o].filePaths
            inFlight == Len(calls) - Len(obs[o].answers)
        IN /\ inFlight \in {0, 1}
           /\ inFlight = 1 <=> ops[o].pc = "fetch"
           /\ \A k \in 1..Len(calls) :
                 LET paths == calls[k].paths
                     before == (k - 1) * BATCH_SIZE
                 IN /\ calls[k].batch = k - 1
                    /\ Len(paths) >= 1
                    /\ Len(paths) <= BATCH_SIZE
                    /\ Len(paths) < BATCH_SIZE => before + Len(paths) = Len(filePaths)
                    /\ before + Len(paths) <= Len(filePaths)
                    /\ \A j \in 1..Len(paths) : paths[j] = filePaths[before + j]

\* C25 witness: a list of more than BATCH_SIZE files has been uploaded in a
\* full batch and a shorter last batch, both answered.
C25_Witness ==
    \E o \in OpIds :
        /\ Len(ops[o].filePaths) > BATCH_SIZE
        /\ Len(obs[o].uploadCalls) = 2
        /\ Len(obs[o].answers) = 2
        /\ Len(obs[o].uploadCalls[1].paths) = BATCH_SIZE
        /\ Len(obs[o].uploadCalls[2].paths) < BATCH_SIZE

\* C26: a batch answered with an error code or not answered at all gives no
\* URL (no path of it is in the path-to-URL map) and every path of it is on
\* the failure list; the batches after it are still sent, and a later batch
\* that is stored has every file that could be read in the map.
C26_BatchFailureAbsorbed ==
    \A o \in OpIds :
        LET calls == obs[o].uploadCalls
            answers == obs[o].answers
        IN /\ \A k \in 1..Len(answers) :
                 IF answers[k] \in {"failed", "thrown"}
                 THEN \A path \in Range(calls[k].paths) :
                         /\ ~MapHas(ops[o].allResults, path)
                         /\ fx.nOps = 1 => path \in Range(failedFiles)
                 ELSE answers[k] = "stored" =>
                         \A path \in Range(calls[k].paths) \ fx.unreadableFiles :
                             /\ MapHas(ops[o].allResults, path)
                             /\ ops[o].allResults[path] =
                                   UrlOf(UploadName(calls[k].renameMap, path))
           /\ (IsSome(ops[o].markdown) /\ ~ScanError(o)) =>
                 /\ Len(calls) = NumBatches(Len(ops[o].filePaths))
                 /\ Len(answers) = Len(calls)

\* C26 witness: the first of two batches failed, the second was stored, and
\* the operation has finished.
C26_Witness ==
    \E o \in OpIds :
        /\ ops[o].pc = "done"
        /\ Len(obs[o].answers) = 2
        /\ obs[o].answers[1] \in {"failed", "thrown"}
        /\ obs[o].answers[2] = "stored"
        /\ \E path \in Range(obs[o].uploadCalls[2].paths) : MapHas(ops[o].allResults, path)

\* the name a path of a batch is uploaded under: its basename at the first
\* occurrence, the basename with _N at the N-th later one
DisambiguatedName(paths, k) ==
    IF EarlierSameName(paths, k) = 0 THEN getFileName(paths[k])
    ELSE WithSuffix(getFileName(paths[k]),
                    <<"_">> \o NumToString(EarlierSameName(paths, k)))

\* C27: a file of a batch whose read fails is on the failure list and is not
\* part of the request; the request of the batch is still made, once, and it
\* carries exactly the other files of the batch, in order, each under its
\* disambiguated name.
C27_ReadFailureLeftOut ==
    \A o \in OpIds : \A c \in 1..Len(obs[o].uploadCalls) :
        LET call == obs[o].uploadCalls[c]
            read == {k \in 1..Len(call.paths) : call.paths[k] \notin fx.unreadableFiles}
            sent == [j \in 1..Len(call.names) |->
                        CHOOSE k \in read : Cardinality({i \in read : i < k}) = j - 1]
        IN /\ Len(call.names) = Cardinality(read)
           /\ \A j \in 1..Len(call.names) :
                 call.names[j] = DisambiguatedName(call.paths, sent[j])
           /\ \A k \in 1..Len(call.paths) :
                 (k \notin read /\ fx.nOps = 1) => call.paths[k] \in Range(failedFiles)
           /\ \A other \in 1..Len(obs[o].uploadCalls) :
                 other # c => obs[o].uploadCalls[other].batch # call.batch

\* C27 witness: of three files x of one batch the second could not be read;
\* the request carries x and x_2, and the failed file is on the failure list.
C27_Witness ==
    \E o \in OpIds :
        /\ fx.kind = "dups"
        /\ Len(obs[o].uploadCalls) = 1
        /\ obs[o].uploadCalls[1].paths[2] \in fx.unreadableFiles
        /\ obs[o].uploadCalls[1].names = <<<<"x">>, <<"x", "_", "2">>>>
        /\ obs[o].uploadCalls[1].paths[2] \in Range(failedFiles)

\* C28: at most MAX_CONCURRENT_READS reads of files are outstanding in an
\* operation at any moment.
C28_AtMostFiveReads ==
    \A o \in OpIds : Cardinality(ops[o].reading) <= MAX_CONCURRENT_READS

\* C28 witness: in a batch of BATCH_SIZE files, MAX_CONCURRENT_READS reads
\* are outstanding after the first ones have completed.
C28_Witness ==
    \E o \in OpIds :
        /\ ops[o].pc = "read"
        /\ Len(BatchPaths(ops[o].filePaths, ops[o].batchIndex)) = BATCH_SIZE
        /\ ops[o].chunkStart = MAX_CONCURRENT_READS
        /\ Cardinality(ops[o].reading) = MAX_CONCURRENT_READS

\* C29: once a batch has been answered, a path of the batch is in the
\* path-to-URL map exactly when the name it was uploaded under (its rename-map
\* entry, else its basename) is a key of the answer, the URL stored for the
\* path is the answer's URL for that name, and every other path of the batch
\* is on the failure list.
C29_AnswerTranslatedByUploadName ==
    \A o \in OpIds : \A c \in 1..Len(obs[o].results) :
        LET call == obs[o].uploadCalls[c]
            answer == obs[o].results[c]
        IN \A path \in Range(call.paths) :
              LET name == IF MapHas(call.renameMap, path) THEN call.renameMap[path]
                          ELSE getFileName(path)
              IN IF name \in DOMAIN answer
                 THEN /\ MapHas(ops[o].allResults, path)
                      /\ ops[o].allResults[path] = answer[name]
                 ELSE /\ ~MapHas(ops[o].allResults, path)
                      /\ fx.nOps = 1 => path \in Range(failedFiles)

\* C29 witness: a batch of three files x was stored under x, x_1 and x_2, and
\* the third path has the URL of x_2.
C29_Witness ==
    \E o \in OpIds :
        /\ fx.kind = "dups"
        /\ fx.unreadableFiles = {}
        /\ Len(obs[o].results) = 1
        /\ DOMAIN obs[o].results[1] = {<<"x">>, <<"x", "_", "1">>, <<"x", "_", "2">>}
        /\ ops[o].allResults[obs[o].uploadCalls[1].paths[3]] = UrlOf(<<"x", "_", "2">>)

\* the upload phase of operation o has begun: a file is being read or has
\* been read for upload, or an upload call has been issued
UploadBegun(o) ==
    \/ ops[o].pc \in {"read", "fetch", "insert"}
    \/ ops[o].reading # {}
    \/ ops[o].readOk # {}
    \/ Len(obs[o].uploadCalls) > 0

\* C30: when the upload phase of an operation has begun, its scan is over:
\* the scan of the root has returned the flat file list the upload works on,
\* every scan of a subdirectory has returned, and no directory listing is
\* outstanding or still to be issued.
C30_ScanBeforeUpload ==
    \A o \in OpIds :
        UploadBegun(o) =>
            /\ fx.root \in DOMAIN ops[o].frames
            /\ ops[o].frames[fx.root].settled = "resolved"
            /\ ops[o].filePaths = ops[o].frames[fx.root].filePaths
            /\ \A d \in DOMAIN ops[o].frames :
                  LET fr == ops[o].frames[d] IN
                  /\ ~fr.listing
                  /\ fr.settled = "resolved"
                  /\ fr.awaiting = {}
                  /\ fr.index = Len(fr.subDirs)

\* C30 witness: files of a folder with subdirectories two levels deep are
\* being read for upload.
C30_Witness ==
    \E o \in OpIds :
        /\ fx.kind = "nested"
        /\ ops[o].pc = "read"
        /\ ops[o].reading # {}
        /\ Cardinality(DOMAIN ops[o].frames) = 7

----------------------------------------------------------------------------
(* Properties of operations as wholes                                       *)

IsOversizedEntry(entry) ==
    entry.kind = "file" /\ ~IsHiddenEntry(entry) /\ entry.size > MAX_FILE_SIZE

\* C31: the failures an operation reports are its own: on a folder with two
\* oversized files, every file of which is stored, each of two operations that
\* run at the same time ends with a failed count of two, and an oversized file
\* an operation has met stays on the failure list while the operation runs.
C31_FailureLogPerOperation ==
    \A o \in OpIds :
        fx.kind \in {"entries", "both"} =>
            /\ (ops[o].pc = "done" /\ ~ScanError(o)) =>
                  Get(ops[o].status).failed = Cardinality(EntryPaths(IsOversizedEntry))
            /\ \A d \in DOMAIN ops[o].frames :
                  (~ops[o].frames[d].listing /\ ops[o].pc # "done") =>
                      \A k \in 1..Len(fx.dirs[d]) :
                          IsOversizedEntry(fx.dirs[d][k]) =>
                              Append(d, fx.dirs[d][k].name) \in Range(failedFiles)

\* C32: when cancelUpload() is called while an operation scans, no scan call
\* of the operation starts a directory listing afterwards (the directories
\* with a scan call are those that had one at the cancellation), and the
\* operation does not end with the error.
C32_NoListingAfterCancel ==
    \A o \in OpIds :
        (IsSome(obs[o].cancelledAt) /\ Get(obs[o].cancelledAt).pc = "scan") =>
            /\ DOMAIN ops[o].frames \subseteq Get(obs[o].cancelledAt).frames
            /\ fx.unreadableDirs = {} /\ fx.kind # "chain" => ~ScanError(o)

\* the File nodes of tree that have a URL
LinkedNodes(tree) ==
    SelectSeq(PreOrder(tree, 1),
              LAMBDA e : e.node.type = "file" /\ IsSome(e.node.url))

\* C33: an operation makes at most one request to the editor; when it is
\* made every batch of the flat file list has been sent and answered and the
\* tree carries the URLs of the path-to-URL map; a failed insertion is logged
\* and the operation still ends with the success or partial-failure message.
C33_InsertOnceAfterUpload ==
    \A o \in OpIds :
        /\ obs[o].insertCalls <= 1
        /\ obs[o].insertCalls = 1 <=> ops[o].pc = "insert" \/ IsSome(ops[o].markdown)
        /\ obs[o].insertCalls = 1 =>
              LET linked == LinkedNodes(ops[o].tree) IN
              /\ Len(obs[o].uploadCalls) = NumBatches(Len(ops[o].filePaths))
              /\ Len(obs[o].answers) = Len(obs[o].uploadCalls)
              /\ Len(linked) = Cardinality(DOMAIN ops[o].allResults)
              /\ \A k \in 1..Len(linked) :
                    /\ IsSome(linked[k].node.filePath)
                    /\ MapHas(ops[o].allResults, Get(linked[k].node.filePath))
                    /\ Get(linked[k].node.url) =
                          ops[o].allResults[Get(linked[k].node.filePath)]
        /\ ops[o].insertLogged =>
              /\ ops[o].pc = "done"
              /\ Get(ops[o].status).kind \in {"success", "partialFailed"}

\* C33 witness: an operation whose insertion failed has ended.
C33_Witness ==
    \E o \in OpIds :
        /\ ops[o].pc = "done"
        /\ ops[o].insertLogged
        /\ obs[o].insertCalls = 1
        /\ Len(obs[o].uploadCalls) = 2

\* C34: when the scan of the root has returned an empty flat file list, the
\* operation has ended with the empty-folder message, and it has made no
\* upload call, read no file and made no request to the editor.
C34_EmptyFolderEndsQuietly ==
    \A o \in OpIds :
        (/\ fx.root \in DOMAIN ops[o].frames
         /\ ops[o].frames[fx.root].settled = "resolved"
         /\ ops[o].frames[fx.root].filePaths = <<>>) =>
            /\ ops[o].pc = "done"
            /\ Get(ops[o].status).kind = "emptyFolder"
            /\ obs[o].uploadCalls = <<>>
            /\ obs[o].insertCalls = 0
            /\ ops[o].reading = {}
            /\ ~IsSome(ops[o].markdown)

\* C34 witness: the scan of a folder with an empty subdirectory, a symbolic
\* link, an oversized file and filtered entries has returned.
C34_Witness ==
    \E o \in OpIds :
        /\ fx.kind = "hollow"
        /\ ops[o].pc = "done"
        /\ DirPresent(ops[o].tree, << <<"a">> >>)
        /\ Append(ROOT, <<"g">>) \in Range(failedFiles)
        /\ ops[o].filePaths = <<>>

\* C36: an operation that has uploaded ends with counts such that total is
\* the length of the flat file list, succeeded is the number of paths that
\* have a URL, succeeded is not negative, and succeeded + failed = total.
C36_CountsAddUp ==
    \A o \in OpIds :
        (/\ fx.nOps = 1
         /\ ops[o].pc = "done"
         /\ Get(ops[o].status).kind \in {"success", "partialFailed"}) =>
            LET status == Get(ops[o].status) IN
            /\ status.total = Len(ops[o].filePaths)
            /\ status.success = Cardinality(DOMAIN ops[o].allResults)
            /\ status.success >= 0
            /\ status.success + status.failed = status.total

IsEligibleFile(entry) ==
    entry.kind = "file" /\ ~IsHiddenEntry(entry) /\ entry.size <= MAX_FILE_SIZE

\* the eligible files of the folder: regular files that pass the filter and
\* the size ceiling and are not below a filtered entry or a symbolic link
EligibleFiles ==
    {path \in EntryPaths(IsEligibleFile) :
        \A skipped \in EntryPaths(IsSymlinkEntry) \cup EntryPaths(IsHiddenEntry) :
            ~IsPrefixSeq(skipped, path)}

\* C37: an operation is refused for too many files only on a folder with more
\* than MAX_FILES eligible files; a folder with exactly MAX_FILES is uploaded.
C37_RefusedOnlyAboveCeiling ==
    \A o \in OpIds :
        (ops[o].pc = "done" /\ Get(ops[o].status).kind = "tooManyFiles") =>
            Cardinality(EligibleFiles) > MAX_FILES

\* C38: when the scan of a directory has returned, the cursor has passed
\* every subdirectory collected, each of them was scanned by exactly one
\* call, which has returned, and each has exactly one Directory node among
\* the nodes of the directory, which has no other Directory node.
C38_EachSubdirectoryOnce ==
    \A o \in OpIds : \A p \in DOMAIN ops[o].frames :
        ops[o].frames[p].settled = "resolved" =>
            LET fr == ops[o].frames[p]
                dirNodes == SelectSeq(fr.nodes, LAMBDA n : n.type = "directory")
            IN /\ fr.index = Len(fr.subDirs)
               /\ Len(dirNodes) = Len(fr.subDirs)
               /\ \A j \in 1..Len(fr.subDirs) :
                     /\ Cardinality({k \in 1..Len(dirNodes) :
                                        dirNodes[k].name = fr.subDirs[j].name}) = 1
                     /\ CountIn(obs[o].scanCalls, fr.subDirs[j].path) = 1
                     /\ fr.subDirs[j].path \in DOMAIN ops[o].frames
                     /\ ops[o].frames[fr.subDirs[j].path].settled = "resolved"

\* C38 witness: the scan of a directory with more subdirectories than
\* workers has returned.
C38_Witness ==
    \E o \in OpIds :
        /\ fx.kind = "wide"
        /\ ROOT \in DOMAIN ops[o].frames
        /\ ops[o].frames[ROOT].settled = "resolved"
        /\ Len(ops[o].frames[ROOT].subDirs) > MAX_CONCURRENT_SUBDIRS
        /\ Len(obs[o].scanCalls) = Len(ops[o].frames[ROOT].subDirs)

\* C39: when an operation has ended, none of its scan calls is still waiting
\* for a directory listing (whose completion would stat the entries, push to
\* the failure list and start further calls).
C39_NoWorkAfterEnd ==
    \A o \in OpIds :
        ops[o].pc = "done" =>
            \A d \in DOMAIN ops[o].frames : ~ops[o].frames[d].listing

----------------------------------------------------------------------------
(* The scan of src/src/index.ts, the revision that keeps a set of visited   *)
(* device+inode identities.  A folder is given by the listing of every      *)
(* identity: the same identity under two names is a bind mount or a link    *)
(* back into the folder.  fx is the folder, ops[1] the one scan.            *)

IndexTs_MAX_DEPTH == 7

VEntry(name, ino) == [name |-> name, ino |-> ino]

\* a subdirectory that leads back to the folder clicked
CycleWorld ==
    [kind |-> "cycle", rootIno |-> "r",
     listing |-> ("r" :> <<VEntry(<<"a">>, "a")>>)
                 @@ ("a" :> <<VEntry(<<"k">>, "r")>>)]

\* one directory under two names beside each other
SiblingsWorld ==
    [kind |-> "siblings", rootIno |-> "r",
     listing |-> ("r" :> <<VEntry(<<"a">>, "a"), VEntry(<<"b">>, "a")>>)
                 @@ ("a" :> <<VEntry(<<"c">>, "c")>>)
                 @@ ("c" :> <<>>)]

\* three directories scanned by three workers, each of which holds names
\* for the same two directories
SharedWorld ==
    [kind |-> "shared", rootIno |-> "r",
     listing |-> ("r" :> <<VEntry(<<"a">>, "a"), VEntry(<<"b">>, "b"),
                           VEntry(<<"c">>, "c")>>)
                 @@ ("a" :> <<VEntry(<<"m">>, "x"), VEntry(<<"n">>, "y")>>)
                 @@ ("b" :> <<VEntry(<<"m">>, "y"), VEntry(<<"n">>, "x")>>)
                 @@ ("c" :> <<VEntry(<<"m">>, "x")>>)
                 @@ ("x" :> <<>>)
                 @@ ("y" :> <<>>)]

VisitedWorlds == {CycleWorld, SiblingsWorld, SharedWorld}

\* one buildDirectoryTree(dirPath, currentDepth, visitedInodes) call
VFrame(ino, currentDepth, parent) ==
    [ino |-> ino,
     depth |-> currentDepth,
     parent |-> parent,
     stage |-> "readdir",       \* readdir, lstat, workers, returned
     entry |-> 0,               \* the entry whose lstat is outstanding
     skipped |-> <<>>,          \* the entries skipped as visited
     subDirs |-> <<>>,
     index |-> 0,
     awaiting |-> {},
     nodes |-> <<>>]

\* the scan before it starts
VIdleScan ==
    [pc |-> "idle", frames |-> EmptyMap, visitedInodes |-> {}, calls |-> <<>>]

\* A wrong VisitedHas: the set is never found to hold the identity.
VisitedHas_Never(visitedInodes, inodeId) == FALSE

\* visitedInodes.has(inodeId)
VisitedHas(visitedInodes, inodeId) == inodeId \in visitedInodes

RECURSIVE processNext(_, _)
RECURSIVE VCheckReturn(_, _)

\* processDirectory for subDir, called by processNext of directory p: the
\* call of buildDirectoryTree up to its readdir, or the placeholder node when
\* the call throws DepthExceededError
processDirectory(S, p, subDir) ==
    LET fr == S.frames[p]
        S1 == [S EXCEPT !.calls = Append(@, [path |-> subDir.path, ino |-> subDir.ino])]
    IN IF fr.depth + 1 >= IndexTs_MAX_DEPTH
       THEN processNext([S1 EXCEPT !.frames[p].nodes = Append(@, subDir.name)], p)
       ELSE [S1 EXCEPT !.frames[p].awaiting = @ \cup {subDir.path},
                       !.frames = MapSet(@, subDir.path,
                                         VFrame(subDir.ino, fr.depth + 1, Some(p)))]

\* processNext of directory p, run until its next await or its end
processNext(S, p) ==
    LET fr == S.frames[p] IN
    IF fr.index >= Len(fr.subDirs) THEN S
    ELSE processDirectory([S EXCEPT !.frames[p].index = @ + 1], p,
                          fr.subDirs[fr.index + 1])

RECURSIVE VLaunchWorkers(_, _, _)
\* Array(n).fill(null).map(() => processNext()), the k workers still to start
VLaunchWorkers(S, p, k) ==
    IF k = 0 THEN S
    ELSE VLaunchWorkers(processNext(S, p), p, k - 1)

\* Promise.all(workers) of directory f is settled when no worker waits; the
\* call returns its nodes and the worker that awaited it goes on
VCheckReturn(S, f) ==
    LET fr == S.frames[f] IN
    IF fr.stage # "workers" \/ fr.awaiting # {} THEN S
    ELSE LET S1 == [S EXCEPT !.frames[f].stage = "returned"]
         IN IF ~IsSome(fr.parent) THEN [S1 EXCEPT !.pc = "done"]
            ELSE LET p == Get(fr.parent)
                     S2 == [S1 EXCEPT !.frames[p].awaiting = @ \ {f},
                                      !.frames[p].nodes = Append(@, getFileName(f))]
                 IN VCheckReturn(processNext(S2, p), p)

\* the for loop over the entries of directory f from the i-th on, up to the
\* lstat of the next directory entry or to Promise.all(workers)
VNextEntry(S, f, i) ==
    IF i <= Len(fx.listing[S.frames[f].ino])
    THEN [S EXCEPT !.frames[f].stage = "lstat", !.frames[f].entry = i]
    ELSE LET S1 == [S EXCEPT !.frames[f].stage = "workers", !.frames[f].entry = 0]
             n == Min(MAX_CONCURRENT_SUBDIRS, Len(S.frames[f].subDirs))
         IN VCheckReturn(VLaunchWorkers(S1, f, n), f)

\* the lstat of the entry of directory f in turn has answered: the identity
\* is looked up in the set and, when absent, added and the entry collected
VLstatSettles(S, f) ==
    LET fr == S.frames[f]
        entry == fx.listing[fr.ino][fr.entry]
        fullPath == Append(f, entry.name)
        S1 == IF VisitedHas(S.visitedInodes, entry.ino)
              THEN [S EXCEPT !.frames[f].skipped = Append(@, fullPath)]
              ELSE [S EXCEPT !.visitedInodes = @ \cup {entry.ino},
                             !.frames[f].subDirs =
                                 Append(@, [name |-> entry.name, path |-> fullPath,
                                            ino |-> entry.ino])]
    IN VNextEntry(S1, f, fr.entry + 1)

InitVisited ==
    /\ fx \in VisitedWorlds
    /\ ops = <<VIdleScan>>
    /\ failedFiles = <<>>
    /\ uploadAbortController = None
    /\ abortedSignals = {}
    /\ obs = <<>>
    /\ ValidateIdle
    /\ RenameIdle
    /\ RenderIdle

VCommit(S) ==
    /\ ops' = <<S>>
    /\ UNCHANGED <<fx, failedFiles, uploadAbortController, abortedSignals, obs,
                   validateVars, renameVars, renderVars>>

\* uploadAndInsert calls buildDirectoryTree(dirPath, 0, new Set())
VisitedScanStart ==
    /\ ops[1].pc = "idle"
    /\ VCommit([VIdleScan EXCEPT !.pc = "scan",
                                 !.frames = MapSet(@, ROOT, VFrame(fx.rootIno, 0, None))])

\* the readdir of directory f completes
VisitedReaddirSettles(f) ==
    /\ ops[1].frames[f].stage = "readdir"
    /\ VCommit(VNextEntry(ops[1], f, 1))

\* the lstat of an entry of directory f completes
VisitedLstatSettles(f) ==
    /\ ops[1].frames[f].stage = "lstat"
    /\ VCommit(VLstatSettles(ops[1], f))

NextVisited ==
    \/ VisitedScanStart
    \/ \E f \in DOMAIN ops[1].frames : VisitedReaddirSettles(f)
    \/ \E f \in DOMAIN ops[1].frames : VisitedLstatSettles(f)

SpecVisited == InitVisited /\ [][NextVisited]_vars

\* C35: no two scan calls made for directory entries have the same identity,
\* an entry skipped as visited has no scan call, and every entry that was
\* collected for scanning has its identity in the set.
C35_OneCallPerIdentity ==
    LET scan == ops[1] IN
    /\ \A i, j \in 1..Len(scan.calls) :
          i # j => scan.calls[i].ino # scan.calls[j].ino
    /\ \A f \in DOMAIN scan.frames :
          /\ \A path \in Range(scan.frames[f].skipped) :
                \A i \in 1..Len(scan.calls) : scan.calls[i].path # path
          /\ \A k \in 1..Len(scan.frames[f].subDirs) :
                scan.frames[f].subDirs[k].ino \in scan.visitedInodes

\* C35 witness: three workers have scanned directories that name the same
\* two directories; each of the two was scanned once and the other names
\* were skipped.
C35_Witness ==
    /\ fx.kind = "shared"
    /\ ops[1].pc = "done"
    /\ Len(ops[1].calls) = 5
    /\ \E f \in DOMAIN ops[1].frames : Len(ops[1].frames[f].skipped) = 2

====
